---- MODULE Spec2Model ----
(***************************************************************************)
(* create-monorepo: the project generation run (createMonorepo), the       *)
(* filesystem materializer, the name validation and the container          *)
(* configuration generator.                                                *)
(*                                                                         *)
(* Strings that the code inspects character by character (project names)   *)
(* are sequences of one-character strings.  Paths are sequences of path    *)
(* segments relative to the target directory <cwd>/<name>; <<>> is the     *)
(* target directory itself.                                                *)
(***************************************************************************)
EXTENDS Integers, Sequences, FiniteSets, TLC

(***************************************************************************)
(* Characters and names                                                    *)
(***************************************************************************)
LowerLetters ==
  << "a", "b", "c", "d", "e", "f", "g", "h", "i", "j", "k", "l", "m",
     "n", "o", "p", "q", "r", "s", "t", "u", "v", "w", "x", "y", "z" >>
UpperLetters ==
  << "A", "B", "C", "D", "E", "F", "G", "H", "I", "J", "K", "L", "M",
     "N", "O", "P", "Q", "R", "S", "T", "U", "V", "W", "X", "Y", "Z" >>

LowerChars == { LowerLetters[i] : i \in DOMAIN LowerLetters }
UpperChars == { UpperLetters[i] : i \in DOMAIN UpperLetters }
DigitChars == {"0", "1", "2", "3", "4", "5", "6", "7", "8", "9"}
SpaceChars == {" ", "\t"}

\* the value commander passes for an omitted [project-name] argument
NoName == <<"<undefined>">>

\* String.prototype.toLowerCase on one character
LowerOf(c) ==
  IF c \in UpperChars
    THEN LowerLetters[CHOOSE i \in DOMAIN UpperLetters : UpperLetters[i] = c]
    ELSE c

toLowerCase(s) == [i \in 1..Len(s) |-> LowerOf(s[i])]

RECURSIVE trimStart(_)
trimStart(s) ==
  IF s # <<>> /\ Head(s) \in SpaceChars THEN trimStart(Tail(s)) ELSE s

RECURSIVE trimEnd(_)
trimEnd(s) ==
  IF s # <<>> /\ s[Len(s)] \in SpaceChars
    THEN trimEnd(SubSeq(s, 1, Len(s) - 1))
    ELSE s

\* String.prototype.trim
trim(s) == trimEnd(trimStart(s))

\* the character class [a-z0-9-_] of the name grammar
NameChar(c) == c \in LowerChars \cup DigitChars \cup {"-", "_"}

\* the pattern without its leading [a-z]
PatternTestUnanchored(name) ==
  name # <<>> /\ \A i \in 1..Len(name) : NameChar(name[i])

\* /^[a-z][a-z0-9-_]*$/.test(name)
PatternTest(name) ==
  /\ name # <<>>
  /\ name[1] \in LowerChars
  /\ \A i \in 1..Len(name) : NameChar(name[i])

\* names the package-name library refuses (its blacklist) or warns about
\* (names of Node.js core modules) although they are made of lowercase
\* letters only
BlacklistedNames == { <<"n", "o", "d", "e", "_", "m", "o", "d", "u", "l", "e", "s">> }
CoreModuleNames == { <<"f", "s">>, <<"o", "s">>, <<"v", "m">> }

\* characters encodeURIComponent leaves unchanged
UrlFriendly(c) ==
  c \in LowerChars \cup UpperChars \cup DigitChars
          \cup {"-", "_", ".", "!", "~", "*", "'", "(", ")"}

UrlFriendlyPart(s) == s # <<>> /\ \A i \in 1..Len(s) : UrlFriendly(s[i])

\* the name has the shape @user/pkg with both parts URL-friendly
ScopedName(name) ==
  /\ Len(name) >= 4
  /\ name[1] = "@"
  /\ \E k \in 3..(Len(name) - 1) :
       /\ name[k] = "/"
       /\ UrlFriendlyPart(SubSeq(name, 2, k - 1))
       /\ UrlFriendlyPart(SubSeq(name, k + 1, Len(name)))

\* name.split('/').slice(-1)[0]
RECURSIVE LastSegment(_)
LastSegment(s) ==
  IF \E i \in 1..Len(s) : s[i] = "/"
    THEN LastSegment(Tail(s))
    ELSE s

\* validate-npm-package-name: the errors it reports, in its order
NpmErrors(name) ==
  (IF name = <<>> THEN <<"name length must be greater than zero">> ELSE <<>>)
  \o (IF name # <<>> /\ name[1] = "."
        THEN <<"name cannot start with a period">> ELSE <<>>)
  \o (IF name # <<>> /\ name[1] = "_"
        THEN <<"name cannot start with an underscore">> ELSE <<>>)
  \o (IF trim(name) # name
        THEN <<"name cannot contain leading or trailing spaces">> ELSE <<>>)
  \o (IF toLowerCase(name) \in BlacklistedNames
        THEN <<"is a blacklisted name">> ELSE <<>>)
  \o (IF (\E i \in 1..Len(name) : ~UrlFriendly(name[i])) /\ ~ScopedName(name)
        THEN <<"name can only contain URL-friendly characters">> ELSE <<>>)

\* validate-npm-package-name: the warnings it reports, in its order
NpmWarnings(name) ==
  (IF toLowerCase(name) \in CoreModuleNames
     THEN <<"is a core module name">> ELSE <<>>)
  \o (IF Len(name) > 214
        THEN <<"name can no longer contain more than 214 characters">>
        ELSE <<>>)
  \o (IF toLowerCase(name) # name
        THEN <<"name can no longer contain capital letters">> ELSE <<>>)
  \o (IF \E i \in 1..Len(LastSegment(name)) :
            LastSegment(name)[i] \in {"~", "'", "!", "(", ")", "*"}
        THEN <<"name can no longer contain special characters">> ELSE <<>>)

validateNpmPackageName(name) ==
  [ validForNewPackages |-> NpmErrors(name) = <<>> /\ NpmWarnings(name) = <<>>,
    errors |-> NpmErrors(name),
    warnings |-> NpmWarnings(name) ]

GrammarMessage ==
  "Name must start with a letter and contain only lowercase letters, numbers, - or _"

\* the validation without the grammar test: the package-name library alone
validateProjectNameNpmOnly(name) ==
  LET validation == validateNpmPackageName(name)
  IN  IF validation.validForNewPackages
        THEN [valid |-> TRUE, errors |-> <<>>]
        ELSE [valid |-> FALSE,
              errors |-> validation.errors \o validation.warnings]

\* a validation that reports the first violation it finds and stops
validateProjectNameFirstOnly(name) ==
  LET validation == validateNpmPackageName(name)
      customErrors == IF name = <<>> \/ ~PatternTest(name)
                        THEN <<GrammarMessage>> ELSE <<>>
      all == validation.errors \o validation.warnings \o customErrors
  IN  IF all = <<>> THEN [valid |-> TRUE, errors |-> <<>>]
                    ELSE [valid |-> FALSE, errors |-> <<Head(all)>>]

\* validateProjectName: [...errors, ...warnings, ...customErrors]
validateProjectName(name) ==
  LET validation == validateNpmPackageName(name)
      customErrors == IF name = <<>> \/ ~PatternTest(name)
                        THEN <<GrammarMessage>> ELSE <<>>
  IN  IF validation.validForNewPackages /\ customErrors = <<>>
        THEN [valid |-> TRUE, errors |-> <<>>]
        ELSE [valid |-> FALSE,
              errors |-> validation.errors \o validation.warnings
                           \o customErrors]

\* .replace(/\s+/g, '-'): every maximal run of whitespace becomes one hyphen
RECURSIVE CollapseSpaces(_)
CollapseSpaces(s) ==
  IF s = <<>> THEN <<>>
  ELSE IF Head(s) \in SpaceChars
    THEN <<"-">> \o CollapseSpaces(trimStart(s))
    ELSE <<Head(s)>> \o CollapseSpaces(Tail(s))

\* the replacement without the g flag: only the first match is removed
RECURSIVE StripFirstDisallowed(_)
StripFirstDisallowed(s) ==
  IF s = <<>> THEN <<>>
  ELSE IF ~NameChar(Head(s)) THEN Tail(s)
  ELSE <<Head(s)>> \o StripFirstDisallowed(Tail(s))

\* .replace(/[^a-z0-9-_]/g, '')
StripDisallowed(s) == SelectSeq(s, NameChar)

sanitizeProjectName(name) ==
  StripDisallowed(CollapseSpaces(toLowerCase(trim(name))))

(***************************************************************************)
(* The filesystem under the target directory                               *)
(***************************************************************************)
\* what a path holds when it is a directory; any other value is file content
Dir == "<dir>"
\* content of a file that was there before the run
OldContent == "<pre-existing>"

Exists(f, p) == p \in DOMAIN f
IsDir(f, p) == Exists(f, p) /\ f[p] = Dir
IsFile(f, p) == Exists(f, p) /\ f[p] # Dir

\* path.dirname
dirname(p) == IF p = <<>> THEN <<>> ELSE SubSeq(p, 1, Len(p) - 1)

\* p and all its ancestors, the target directory included
Prefixes(p) == { SubSeq(p, 1, k) : k \in 0..Len(p) }

\* an existence test that only recognises directories
fileExistsDirOnly(f, p) == IsDir(f, p)

\* fileExists: fs.access succeeds for a file as well as for a directory
fileExists(f, p) == Exists(f, p)

\* fs.ensureDir (mkdir -p) is refused when a file is in the way
CanEnsureDir(f, p) == \A q \in Prefixes(p) : ~IsFile(f, q)

\* fs.ensureDir: creates the missing ancestors too, keeps what exists
ensureDir(f, p) ==
  [q \in DOMAIN f \cup Prefixes(p) |-> IF q \in DOMAIN f THEN f[q] ELSE Dir]

\* fs.writeFile is refused without a parent directory or onto a directory
CanWriteFile(f, p) == IsDir(f, dirname(p)) /\ ~IsDir(f, p) /\ p # <<>>

\* fs.writeFile: creates the file or replaces its content
fsWriteFile(f, p, content) ==
  [q \in DOMAIN f \cup {p} |-> IF q = p THEN content ELSE f[q]]

\* one call into the filesystem, as the generators issue them
EnsureDirOp(p) == [op |-> "ensureDir", path |-> p, content |-> Dir]
WriteFileOp(p, c) == [op |-> "writeFile", path |-> p, content |-> c]

CanApply(f, o) ==
  IF o.op = "ensureDir" THEN CanEnsureDir(f, o.path) ELSE CanWriteFile(f, o.path)

Apply(f, o) ==
  IF o.op = "ensureDir" THEN ensureDir(f, o.path)
                        ELSE fsWriteFile(f, o.path, o.content)

\* the filesystem after a sequence of calls that all succeed
RECURSIVE ApplyCalls(_, _)
ApplyCalls(f, calls) ==
  IF calls = <<>> THEN f ELSE ApplyCalls(Apply(f, Head(calls)), Tail(calls))

\* utils/file-system writeFile: ensureDir(dirname) then fs.writeFile
writeFile(p, content) == << EnsureDirOp(dirname(p)), WriteFileOp(p, content) >>

(***************************************************************************)
(* Directory structure trees and their materialization                     *)
(***************************************************************************)
\* an entry of a DirectoryStructure: a string, null, or a nested structure
FileEntry(key, content) ==
  [key |-> key, kind |-> "string", content |-> content, sub |-> <<>>]
NullEntry(key) ==
  [key |-> key, kind |-> "null", content |-> Dir, sub |-> <<>>]
TreeEntry(key, sub) ==
  [key |-> key, kind |-> "object", content |-> Dir, sub |-> sub]

\* a materializer that creates the directory of a nested structure but does
\* not descend into it
RECURSIVE createDirectoryStructureShallow(_, _)
createDirectoryStructureShallow(basePath, structure) ==
  IF structure = <<>> THEN <<>>
  ELSE LET e == Head(structure)
           fullPath == basePath \o <<e.key>>
           calls ==
             IF e.kind = "string"
               THEN << EnsureDirOp(dirname(fullPath)),
                       WriteFileOp(fullPath, e.content) >>
               ELSE << EnsureDirOp(fullPath) >>
       IN  calls \o createDirectoryStructureShallow(basePath, Tail(structure))

\* createDirectoryStructure as the sequence of filesystem calls it issues,
\* entries in insertion order
RECURSIVE createDirectoryStructure(_, _)
createDirectoryStructure(basePath, structure) ==
  IF structure = <<>> THEN <<>>
  ELSE LET e == Head(structure)
           fullPath == basePath \o <<e.key>>
           calls ==
             IF e.kind = "string"
               THEN << EnsureDirOp(dirname(fullPath)),
                       WriteFileOp(fullPath, e.content) >>
             ELSE IF e.kind = "null"
               THEN << EnsureDirOp(fullPath) >>
               ELSE << EnsureDirOp(fullPath) >>
                      \o createDirectoryStructure(fullPath, e.sub)
       IN  calls \o createDirectoryStructure(basePath, Tail(structure))

(***************************************************************************)
(* Template catalog: the project structure (step 1)                        *)
(* File contents are named after the template function that produces them. *)
(***************************************************************************)
createNextAppStructure(appPath) ==
  createDirectoryStructure(appPath, <<
    TreeEntry("src", << NullEntry("app"), NullEntry("components"),
                        NullEntry("lib"), NullEntry("styles") >>),
    NullEntry("public"),
    FileEntry("next.config.ts", "getNextConfig"),
    FileEntry("package.json", "getNextPackageJson"),
    FileEntry("tsconfig.json", "getNextTsConfig"),
    FileEntry("tailwind.config.ts", "getTailwindConfig"),
    FileEntry("postcss.config.js", "getPostcssConfig") >>)

createVueAppStructure(appPath) ==
  createDirectoryStructure(appPath, <<
    TreeEntry("src", << NullEntry("views"), NullEntry("components"),
                        NullEntry("composables"), NullEntry("router"),
                        NullEntry("assets") >>),
    NullEntry("public"),
    FileEntry("package.json", "getVuePackageJson"),
    FileEntry("vite.config.ts", "getViteConfig"),
    FileEntry("tsconfig.json", "getTsConfig"),
    FileEntry("tailwind.config.ts", "getTailwindConfig"),
    FileEntry("postcss.config.js", "getPostcssConfig") >>)

createReactAppStructure(appPath) ==
  createDirectoryStructure(appPath, <<
    TreeEntry("src", << NullEntry("pages"), NullEntry("components"),
                        NullEntry("hooks"), NullEntry("assets") >>),
    NullEntry("public"),
    FileEntry("package.json", "getReactPackageJson"),
    FileEntry("vite.config.ts", "getViteConfig"),
    FileEntry("tsconfig.json", "getTsConfig"),
    FileEntry("tailwind.config.ts", "getTailwindConfig"),
    FileEntry("postcss.config.js", "getPostcssConfig") >>)

createSvelteAppStructure(appPath) ==
  createDirectoryStructure(appPath, <<
    TreeEntry("src", << NullEntry("routes"), NullEntry("lib"),
                        NullEntry("components") >>),
    NullEntry("static"),
    FileEntry("package.json", "getSveltePackageJson"),
    FileEntry("vite.config.ts", "getViteConfig"),
    FileEntry("tsconfig.json", "getTsConfig"),
    FileEntry("tailwind.config.ts", "getTailwindConfig"),
    FileEntry("postcss.config.js", "getPostcssConfig") >>)

\* an apps loop that materializes the entries from the last to the first
RECURSIVE createAppsStructureReversed(_)
createAppsStructureReversed(apps) ==
  IF apps = <<>> THEN <<>>
  ELSE LET app == Head(apps)
           appPath == <<"apps", app.name>>
       IN  createAppsStructureReversed(Tail(apps))
           \o << EnsureDirOp(appPath) >>
           \o (CASE app.type = "next" -> createNextAppStructure(appPath)
                 [] app.type = "vue" -> createVueAppStructure(appPath)
                 [] app.type = "react" -> createReactAppStructure(appPath)
                 [] app.type = "svelte" -> createSvelteAppStructure(appPath)
                 [] OTHER -> <<>>)

RECURSIVE createAppsStructure(_)
createAppsStructure(apps) ==
  IF apps = <<>> THEN <<>>
  ELSE LET app == Head(apps)
           appPath == <<"apps", app.name>>
       IN  << EnsureDirOp(appPath) >>
           \o (CASE app.type = "next" -> createNextAppStructure(appPath)
                 [] app.type = "vue" -> createVueAppStructure(appPath)
                 [] app.type = "react" -> createReactAppStructure(appPath)
                 [] app.type = "svelte" -> createSvelteAppStructure(appPath)
                 [] OTHER -> <<>>)
           \o createAppsStructure(Tail(apps))

RECURSIVE createPackagesStructure(_)
createPackagesStructure(packages) ==
  IF packages = <<>> THEN <<>>
  ELSE LET pkg == Head(packages)
           packagePath == <<"packages", pkg.name>>
       IN  << EnsureDirOp(packagePath) >>
           \o createDirectoryStructure(packagePath, <<
                NullEntry("src"),
                FileEntry("package.json", "getPackagePackageJson:" \o pkg.name),
                FileEntry("tsconfig.json", "getTsConfig"),
                FileEntry("README.md",
                          "getPackageReadme:" \o pkg.name \o ":" \o pkg.type) >>)
           \o createPackagesStructure(Tail(packages))

RECURSIVE createServicesStructure(_)
createServicesStructure(services) ==
  IF services = <<>> THEN <<>>
  ELSE LET service == Head(services)
           servicePath == <<"services", service.name>>
           structure == <<
             TreeEntry("src", << NullEntry("controllers"), NullEntry("services"),
                                 NullEntry("models"), NullEntry("routes"),
                                 NullEntry("middleware") >>),
             FileEntry("package.json", "getServicePackageJson:" \o service.name),
             FileEntry("tsconfig.json", "getTsConfig"),
             FileEntry("README.md",
                       "getServiceReadme:" \o service.name \o ":" \o service.type) >>
             \o (IF service.database THEN << NullEntry("prisma") >> ELSE <<>>)
       IN  << EnsureDirOp(servicePath) >>
           \o createDirectoryStructure(servicePath, structure)
           \o createServicesStructure(Tail(services))

createConfigStructure ==
  createDirectoryStructure(<<"configs">>, <<
    TreeEntry("eslint", << FileEntry("base.json", "getBaseEslintConfig"),
                           FileEntry("next.json", "getNextEslintConfig"),
                           FileEntry("vue.json", "getVueEslintConfig"),
                           FileEntry("backend.json", "getBackendEslintConfig") >>),
    TreeEntry("typescript", << FileEntry("base.json", "getBaseTsConfig"),
                               FileEntry("next.json", "getNextTsConfigTemplate"),
                               FileEntry("vue.json", "getVueTsConfig"),
                               FileEntry("node.json", "getNodeTsConfig") >>),
    TreeEntry("vite", << FileEntry("web.config.ts", "getViteWebConfig"),
                         FileEntry("lib.config.ts", "getViteLibConfig") >>),
    TreeEntry("jest", << FileEntry("base.js", "getBaseJestConfig"),
                         FileEntry("web.js", "getWebJestConfig") >>),
    TreeEntry("tailwind", << FileEntry("base.config.ts", "getBaseTailwindConfig") >>),
    TreeEntry("env", << FileEntry("env-schema.ts", "getEnvSchema"),
                        FileEntry("development.ts", "getDevelopmentEnv"),
                        FileEntry("production.ts", "getProductionEnv") >>) >>)

createScriptStructure ==
  createDirectoryStructure(<<"scripts">>, <<
    TreeEntry("build", << FileEntry("build-all.ts", "getBuildAllScript"),
                          FileEntry("build-web.ts", "getBuildWebScript"),
                          FileEntry("build-service.ts", "getBuildServiceScript") >>),
    TreeEntry("deploy", << FileEntry("deploy-prod.ts", "getDeployProdScript"),
                           FileEntry("deploy-staging.ts", "getDeployStagingScript") >>),
    TreeEntry("database", << FileEntry("migrate.ts", "getMigrateScript"),
                             FileEntry("seed.ts", "getSeedScript") >>),
    TreeEntry("utils", << FileEntry("env-check.ts", "getEnvCheckScript"),
                          FileEntry("dependency-check.ts",
                                    "getDependencyCheckScript") >>) >>)

createDocumentationStructure ==
  createDirectoryStructure(<<"docs">>, <<
    TreeEntry("architecture", <<
      FileEntry("tech-stack.md", "getTechStackDoc"),
      FileEntry("directory-structure.md", "getDirectoryStructureDoc"),
      FileEntry("deployment.md", "getDeploymentDoc") >>),
    TreeEntry("development", <<
      FileEntry("setup.md", "getSetupDoc"),
      FileEntry("coding-standards.md", "getCodingStandardsDoc"),
      FileEntry("testing.md", "getTestingDoc") >>),
    TreeEntry("api", << FileEntry("rest-api.md", "getRestApiDoc") >>),
    TreeEntry("operations", <<
      FileEntry("monitoring.md", "getMonitoringDoc"),
      FileEntry("troubleshooting.md", "getTroubleshootingDoc") >>) >>)

createGitHubStructure ==
  createDirectoryStructure(<<".github", "workflows">>, <<
    FileEntry("ci.yml", "getCiWorkflow"),
    FileEntry("release.yml", "getReleaseWorkflow"),
    FileEntry("preview.yml", "getPreviewWorkflow"),
    FileEntry("security.yml", "getSecurityWorkflow") >>)

\* the development-container descriptor, written whatever the docker flag is
createDevContainerStructure ==
  createDirectoryStructure(<<".devcontainer">>, <<
    FileEntry("devcontainer.json", "getDevContainerConfig") >>)

\* the root directories, in the order of the directories array
RootDirectories ==
  << <<"apps">>, <<"packages">>, <<"services">>, <<"configs">>, <<"scripts">>,
     <<"docs">>, <<".changeset">>, <<".devcontainer">>,
     <<".github", "workflows">>, <<".husky">>, <<".vscode">> >>

\* step 1: the filesystem calls of generateProjectStructure, in order
generateProjectStructure(config) ==
  [i \in 1..Len(RootDirectories) |-> EnsureDirOp(RootDirectories[i])]
  \o createAppsStructure(config.apps)
  \o createPackagesStructure(config.packages)
  \o createServicesStructure(config.services)
  \o createConfigStructure
  \o createScriptStructure
  \o createDocumentationStructure
  \o createGitHubStructure
  \o createDevContainerStructure

(***************************************************************************)
(* Template catalog: manifests (step 2), tool configs (step 3)             *)
(***************************************************************************)
\* the root manifest as the fields generateRootPackageJson returns:
\* scripts maps script names to commands, devDependencies maps package
\* names to version ranges, packageManager is a string of characters
Manifest(name, scripts, devDependencies, packageManager) ==
  [name |-> name, scripts |-> scripts, devDependencies |-> devDependencies,
   packageManager |-> packageManager]

\* an object without keys
NoEntries == [k \in {} |-> ""]

BaseScripts ==
  [k \in {"dev", "build", "test", "lint", "lint:fix", "typecheck", "clean"}
     |-> "turbo run"]
  @@ [k \in {"format", "format:check"} |-> "prettier"]

DockerScripts ==
  ("docker:up" :> "docker-compose up -d") @@ ("docker:down" :> "docker-compose down")

BaseDevDependencies ==
  ("turbo" :> "^1.10.0") @@ ("typescript" :> "^5.2.0") @@ ("prettier" :> "^3.0.0")
  @@ ("husky" :> "^8.0.0") @@ ("@changesets/cli" :> "^2.26.0")

DockerDevDependencies == ("docker-compose" :> "^0.24.0")

EslintDevDependencies ==
  ("eslint" :> "^8.0.0")
  @@ ("@typescript-eslint/eslint-plugin" :> "^6.0.0")
  @@ ("@typescript-eslint/parser" :> "^6.0.0")
  @@ ("eslint-config-prettier" :> "^9.0.0")
  @@ ("eslint-plugin-prettier" :> "^5.0.0")

\* config.tools.some(tool => tool.name === name)
HasTool(config, name) ==
  \E i \in 1..Len(config.tools) : config.tools[i].name = name

\* the literal `pnpm@8.0.0`
PackageManagerField == << "p", "n", "p", "m", "@", "8", ".", "0", ".", "0" >>

\* generateRootPackageJson: the script table is one literal that holds the
\* docker scripts; the eslint packages are added when tools has an entry
\* named eslint; packageManager is a literal
generateRootPackageJson(config) ==
  Manifest(config.name,
           BaseScripts @@ DockerScripts,
           (IF HasTool(config, "eslint") THEN EslintDevDependencies ELSE NoEntries)
             @@ BaseDevDependencies
             @@ (IF config.docker THEN DockerDevDependencies ELSE NoEntries),
           PackageManagerField)

\* step 2: generatePackageJson writes the root manifest, the workspace
\* descriptor and the pipeline descriptor, in this order
generatePackageJson(config) ==
  writeFile(<<"package.json">>, "generateRootPackageJson")
  \o writeFile(<<"pnpm-workspace.yaml">>, "generateWorkspaceYaml")
  \o writeFile(<<"turbo.json">>, "generateTurboJson")

ToolEnabled(config, tool) ==
  \E i \in 1..Len(config.tools) :
    config.tools[i].name = tool /\ config.tools[i].enabled

\* step 3: generateToolConfigs; ignore, environment and editor files always,
\* one tool's files only when that tool is enabled
generateToolConfigs(config) ==
  writeFile(<<".gitignore">>, "gitignore")
  \o (IF ToolEnabled(config, "eslint")
        THEN writeFile(<<".eslintrc.js">>, "eslintrc") ELSE <<>>)
  \o (IF ToolEnabled(config, "prettier")
        THEN writeFile(<<".prettierrc">>, "prettierrc") ELSE <<>>)
  \o (IF ToolEnabled(config, "husky")
        THEN writeFile(<<".husky", "pre-commit">>, "pre-commit")
             \o writeFile(<<".husky", "commit-msg">>, "commit-msg")
        ELSE <<>>)
  \o (IF ToolEnabled(config, "changesets")
        THEN writeFile(<<".changeset", "config.json">>, "changeset-config")
        ELSE <<>>)
  \o writeFile(<<".env.example">>, "env-example")
  \o writeFile(<<".env.local">>, "env-local")
  \o writeFile(<<".vscode", "settings.json">>, "vscode-settings")
  \o writeFile(<<".vscode", "extensions.json">>, "vscode-extensions")

(***************************************************************************)
(* Template catalog: container configuration (step 4)                      *)
(***************************************************************************)
WebDockerfile == "configs/docker/Dockerfile.web"
ApiDockerfile == "configs/docker/Dockerfile.api"
NoDockerfile == "<none>"
NoImage == "<none>"

\* every instead of some
hasDatabaseEvery(config) ==
  \A i \in 1..Len(config.services) : config.services[i].database

\* does any declared service require the relational datastore
hasDatabase(config) ==
  \E i \in 1..Len(config.services) : config.services[i].database

\* one block under "services:" of the compose descriptor
ServiceBlock(name, image, dockerfile, ports, volumes, depends_on) ==
  [name |-> name, image |-> image, dockerfile |-> dockerfile,
   ports |-> ports, volumes |-> volumes, depends_on |-> depends_on]

PostgresBlock ==
  ServiceBlock("postgres", "postgres:15", NoDockerfile, << <<5432, 5432>> >>,
               << "postgres_data:/var/lib/postgresql/data" >>, <<>>)

RedisBlock ==
  ServiceBlock("redis", "redis:7-alpine", NoDockerfile, << <<6379, 6379>> >>,
               <<>>, <<>>)

\* an application block that lists postgres whether or not it is emitted
AppBlockAlwaysPostgres(config, index) ==
  LET app == config.apps[index + 1]
  IN  ServiceBlock(app.name, NoImage, WebDockerfile,
                   << <<3000 + index, 3000>> >>,
                   << "./apps/" \o app.name, "./packages" >>,
                   << "redis", "postgres" >>)

\* config.apps.forEach((app, index) => ...)
AppBlock(config, index) ==
  LET app == config.apps[index + 1]
  IN  ServiceBlock(app.name, NoImage, WebDockerfile,
                   << <<3000 + index, 3000>> >>,
                   << "./apps/" \o app.name, "./packages" >>,
                   << "redis" >>
                     \o (IF hasDatabase(config) THEN << "postgres" >> ELSE <<>>))

\* config.services.forEach((service, index) => ...)
BackendBlock(config, index) ==
  LET service == config.services[index + 1]
  IN  ServiceBlock(service.name, NoImage, ApiDockerfile,
                   << <<4000 + index, service.port>> >>,
                   << "./services/" \o service.name, "./packages" >>,
                   << "redis" >>
                     \o (IF hasDatabase(config) /\ service.database
                           THEN << "postgres" >> ELSE <<>>))

NginxBlock(config) ==
  ServiceBlock("nginx", "nginx:alpine", NoDockerfile,
               << <<80, 80>>, <<443, 443>> >>,
               << "./configs/nginx/nginx.conf" >>,
               [i \in 1..Len(config.apps) |-> config.apps[i].name]
                 \o [i \in 1..Len(config.services) |-> config.services[i].name])

\* generateDockerCompose: the descriptor as its blocks, volumes and networks
generateDockerCompose(config) ==
  [ services |->
      (IF hasDatabase(config) THEN << PostgresBlock >> ELSE <<>>)
      \o << RedisBlock >>
      \o [i \in 1..Len(config.apps) |-> AppBlock(config, i - 1)]
      \o [i \in 1..Len(config.services) |-> BackendBlock(config, i - 1)]
      \o << NginxBlock(config) >>,
    volumes |-> IF hasDatabase(config) THEN << "postgres_data" >> ELSE <<>>,
    networks |-> << "monorepo-network" >> ]

Upstream(name, host, port) == [name |-> name, host |-> host, port |-> port]
ProxyLocation(path, upstream) ==
  [path |-> path, proxy_pass |-> upstream, status |-> 0, body |-> ""]
ReturnLocation(path, status, body) ==
  [path |-> path, proxy_pass |-> "", status |-> status, body |-> body]

\* generateNginxConfig(): takes no argument and returns one literal
generateNginxConfig ==
  [upstreams |-> << Upstream("frontend", "corporate-website", 3000),
                    Upstream("admin", "admin-dashboard", 3001),
                    Upstream("api-gateway", "api-gateway", 4000),
                    Upstream("user-service", "user-service", 4001),
                    Upstream("content-service", "content-service", 4002) >>,
   locations |-> << ProxyLocation("/", "frontend"),
                    ProxyLocation("/admin", "admin"),
                    ProxyLocation("/api", "api-gateway"),
                    ProxyLocation("/api/users", "user-service"),
                    ProxyLocation("/api/content", "content-service"),
                    ReturnLocation("/health", 200, "healthy\n") >>]

\* step 4: the filesystem calls of generateDockerConfig, in order
generateDockerConfig(config) ==
  writeFile(<<"docker-compose.yml">>, "generateDockerCompose")
  \o writeFile(<<"configs", "docker", "Dockerfile.web">>, "generateWebDockerfile")
  \o writeFile(<<"configs", "docker", "Dockerfile.api">>, "generateApiDockerfile")
  \o writeFile(<<".dockerignore">>, "generateDockerignore")
  \o writeFile(<<"configs", "nginx", "nginx.conf">>, "generateNginxConfig")

(***************************************************************************)
(* Configurations                                                          *)
(***************************************************************************)
AppConfig(name, type, port) ==
  [name |-> name, type |-> type, port |-> port, features |-> <<>>]
PackageConfig(name, type) == [name |-> name, type |-> type, shared |-> TRUE]
ServiceConfig(name, type, port, database) ==
  [name |-> name, type |-> type, port |-> port, database |-> database]
ToolConfig(name, enabled) == [name |-> name, enabled |-> enabled]

MonorepoConfig(name, pm, template, docker, skipInstall, skipGit, apps, packages, services, tools) ==
  [name |-> name, packageManager |-> pm, template |-> template,
   docker |-> docker, skipInstall |-> skipInstall, skipGit |-> skipGit,
   apps |-> apps, packages |-> packages, services |-> services,
   tools |-> tools]

\* `let config` before it is assigned
NoConfig == MonorepoConfig(NoName, "", "", FALSE, FALSE, FALSE,
                           <<>>, <<>>, <<>>, <<>>)

\* JavaScript truthiness of the projectName argument
Truthy(name) == name # NoName /\ name # <<>>

\* x || fallback on a string
OrDefault(x, fallback) == IF x = "" THEN fallback ELSE x

\* the Configuration of a non-interactive run
ConfigFromOptions(name, opts) ==
  MonorepoConfig(name,
                 OrDefault(opts.packageManager, "pnpm"),
                 OrDefault(opts.template, "default"),
                 opts.docker, opts.skipInstall, opts.skipGit,
                 <<>>, <<>>, <<>>, <<>>)

\* a prompt flow that answers with both steps skipped
promptForMonorepoConfigSkipping(ans) ==
  MonorepoConfig(ans.projectName, ans.packageManager, ans.template, ans.docker,
                 TRUE, TRUE, ans.apps, ans.packages, ans.services,
                 [i \in 1..Len(ans.tools) |-> ToolConfig(ans.tools[i], TRUE)])

\* promptForMonorepoConfig: everything comes from the answers; skipInstall
\* and skipGit are the literals false; every selected tool is enabled
promptForMonorepoConfig(ans) ==
  MonorepoConfig(ans.projectName, ans.packageManager, ans.template, ans.docker,
                 FALSE, FALSE, ans.apps, ans.packages, ans.services,
                 [i \in 1..Len(ans.tools) |-> ToolConfig(ans.tools[i], TRUE)])

\* the Configuration of an interactive run: a command-line name replaces
\* the prompted one without being validated
ConfigFromPrompts(name, ans) ==
  IF Truthy(name)
    THEN [promptForMonorepoConfig(ans) EXCEPT !.name = name]
    ELSE promptForMonorepoConfig(ans)

(***************************************************************************)
(* Inputs of a create run                                                  *)
(***************************************************************************)
ValidName == <<"a", "b">>
DigitFirstName == <<"1", "a">>
BadCharName == <<"a", "@">>

ProjectNames == {NoName, ValidName, DigitFirstName, BadCharName}

\* --template and --package-manager as they arrive from the command line;
\* "bun" and "custom" stand for values outside the enumerations
TemplateAndManager ==
  { <<"default", "pnpm">>, <<"minimal", "npm">>, <<"default", "yarn">>,
    <<"enterprise", "bun">>, <<"custom", "yarn">> }

CreateOption(tm, d, si, sg, ia) ==
  [template |-> tm[1], packageManager |-> tm[2], docker |-> d,
   skipInstall |-> si, skipGit |-> sg, interactive |-> ia]

\* every combination of the flags without --interactive; with --interactive
\* the three boolean flags are all absent or all present
CreateOptions ==
  { CreateOption(tm, d, si, sg, FALSE) :
      tm \in TemplateAndManager, d \in BOOLEAN, si \in BOOLEAN, sg \in BOOLEAN }
  \cup
  { CreateOption(tm, b, b, b, TRUE) : tm \in TemplateAndManager, b \in BOOLEAN }

\* what the user may answer to the prompt flow; the name prompt filters the
\* input through sanitizeProjectName and accepts it only if it validates
PromptInputs == { <<"A", " ", "b">> }
PromptNames ==
  { sanitizeProjectName(x) : x \in
      { y \in PromptInputs : validateProjectName(sanitizeProjectName(y)).valid } }

Answers ==
  { [projectName |-> n, packageManager |-> "pnpm", template |-> "default",
     docker |-> FALSE, apps |-> <<>>, packages |-> <<>>, services |-> <<>>,
     tools |-> <<>>] : n \in PromptNames }
  \cup
  { [projectName |-> n, packageManager |-> "npm", template |-> "next-fullstack",
     docker |-> TRUE,
     apps |-> << AppConfig("web", "next", 3000) >>,
     packages |-> << PackageConfig("ui", "ui") >>,
     services |-> << ServiceConfig("api", "api-gateway", 4000, TRUE) >>,
     tools |-> << "eslint", "husky" >>] : n \in PromptNames }

\* what may be at the target path before the run
EmptyFs == [p \in {} |-> Dir]
InitialFilesystems ==
  { EmptyFs,
    (<<>> :> Dir),
    (<<>> :> OldContent),
    (<<>> :> Dir) @@ (<<"package.json">> :> OldContent) }

(***************************************************************************)
(* The create run                                                          *)
(***************************************************************************)
VARIABLES
  projectName,   \* the [project-name] argument
  options,       \* the parsed command-line flags
  answers,       \* what the user answers if the prompt flow runs
  initialFs,     \* the filesystem under the target path before the run
  fs,            \* the filesystem under the target path
  pc,            \* "config", "exists", "tasks" or "exited"
  config,        \* the Configuration, NoConfig until it is built
  task,          \* index of the current task of the list
  taskState,     \* per task: "pending", "running", "completed", "failed"
  todo,          \* calls the running task has still to issue, in order
  spawned,       \* external processes invoked so far, with their outcome
  stdout,        \* messages printed to standard output
  stderr,        \* messages printed to the error stream (errors, warnings)
  exitCode,      \* Running until the process terminates
  composeInput,  \* the Configuration handed to generateDockerCompose
  composeOutput, \* the compose descriptor it returned
  nameInput,     \* the string handed to the name functions
  validation,    \* what validateProjectName returned for it
  sanitized,     \* results of applying sanitizeProjectName again and again
  treeInput,     \* the structure handed to createDirectoryStructure
  thrown,        \* the error the call under test rejected with, if any
  pluginOptions, \* the options of the plugin command
  ioLog,         \* file operations of the plugin command, in order
  invoked,       \* plugin actions invoked, in order
  doctorEnv,     \* what the machine answers to the checks of doctor
  results,       \* the DiagnosticResults doctor has collected
  genConfig,     \* the Configuration handed to the generators
  rootManifest,  \* what generateRootPackageJson returned for it
  nginxConf,     \* what generateNginxConfig returned
  diskManifest,  \* the content of ./package.json the installers work on
  installers     \* per running plugin installer: its step and its config

runVars == << projectName, options, answers, initialFs, fs, pc, config, task,
              taskState, todo, spawned, stdout, stderr, exitCode >>
composeVars == << composeInput, composeOutput >>
nameVars == << nameInput, validation, sanitized >>
treeVars == << treeInput, thrown >>
pluginVars == << pluginOptions, ioLog, invoked >>
doctorVars == << doctorEnv, results >>
\* the variables the create run never touches
genVars == << genConfig, rootManifest, nginxConf >>
installerVars == << diskManifest, installers >>
extraVars == << genVars, installerVars >>
otherVars == << composeVars, nameVars, treeVars, pluginVars, doctorVars,
               extraVars >>
vars == << runVars, otherVars >>

Running == -1
Tasks == 1..6

\* the messages of the run
MsgCreating == "Creating your monorepo project..."
MsgSuccess == "Monorepo project created successfully!"
MsgGitOk == "Git repository initialized successfully"
MsgInstallOk == "Dependencies installed successfully"
MsgFailed == "Failed to create monorepo:"
ErrNameRequired == "Project name is required in non-interactive mode"
ErrInvalidName == "Invalid project name"
ErrTargetExists == "Directory already exists. Please choose a different name."
ErrFileSystem == "filesystem error"
ErrUnsupportedManager == "Unsupported package manager"
ErrInstall == "install command failed"
WarnGit == "Failed to initialize Git repository:"
MsgInstallFailed == "Failed to install dependencies:"

\* a catch block that exits with the success status
ExitStatusSuccess == 1 - 1

\* process.exit(1) in the catch block of createMonorepo
ExitStatusOnError == 1

\* initializeGit: init, add, commit
GitCommands ==
  << <<"git", "init">>, <<"git", "add", ".">>,
     <<"git", "commit", "-m", "Initial commit">> >>

PackageManagers == {"npm", "yarn", "pnpm"}

\* task 5 without the test of skipGit
GitCallsIgnoringFlag(cfg) == GitCommands

\* the body of task 5: nothing at all when skipGit is set
GitCalls(cfg) == IF ~cfg.skipGit THEN GitCommands ELSE <<>>

\* the body of task 6: nothing at all when skipInstall is set
InstallCalls(cfg) ==
  IF ~cfg.skipInstall THEN << <<cfg.packageManager, "install">> >> ELSE <<>>

\* task 4 without the test of docker
DockerCallsIgnoringFlag(cfg) == generateDockerConfig(cfg)

\* the body of task 4: nothing at all when docker is not set
DockerCalls(cfg) == IF cfg.docker THEN generateDockerConfig(cfg) ELSE <<>>

\* the calls a task issues, in order
TaskCalls(t, cfg) ==
  CASE t = 1 -> generateProjectStructure(cfg)
    [] t = 2 -> generatePackageJson(cfg)
    [] t = 3 -> generateToolConfigs(cfg)
    [] t = 4 -> DockerCalls(cfg)
    [] t = 5 -> GitCalls(cfg)
    [] t = 6 -> InstallCalls(cfg)

\* a task list with the install task placed right after the structure task
NextTaskInstallEarly(t) == IF t = 1 THEN 6 ELSE IF t = 6 THEN 7 ELSE t + 1

\* the task list runs its tasks in array order, one after the other
NextTask(t) == t + 1

\* a task list built with exitOnError: false
ListrCarriesOn == FALSE

\* the task list stops at the first task that throws
ListrExitOnError == TRUE

\* initializeGit without its try/catch
initializeGitRethrows == TRUE

\* initializeGit catches whatever a git command throws
initializeGitThrows == FALSE

\* installDependencies without the throw in its catch block
installDependenciesSwallows == FALSE

\* installDependencies logs the error and throws it again
installDependenciesThrows == TRUE

Spawn(cmd, ok) == [cmd |-> cmd, ok |-> ok]

\* the catch block of createMonorepo; log is the error stream so far
FatalAfter(log, message) ==
  /\ stderr' = log \o << MsgFailed, message >>
  /\ exitCode' = ExitStatusOnError
  /\ pc' = "exited"

Fatal(message) == FatalAfter(stderr, message)

\* the running task throws: the list marks it failed and, unless told to
\* carry on, rejects, which lands in the catch block of createMonorepo
TaskThrows(log, message) ==
  /\ taskState' = [taskState EXCEPT ![task] = "failed"]
  /\ IF ListrExitOnError
       THEN /\ FatalAfter(log, message)
            /\ UNCHANGED << task, todo >>
       ELSE /\ task' = NextTask(task)
            /\ todo' = <<>>
            /\ stderr' = log
            /\ UNCHANGED << pc, exitCode >>

\* validateProjectName has not been called
NoValidation == [valid |-> FALSE, errors |-> <<"<not called>">>]

\* the generators and name functions exercised on their own are at rest
ComposeIdle ==
  /\ composeInput = NoConfig
  /\ composeOutput = generateDockerCompose(NoConfig)

NamesIdle ==
  /\ nameInput = <<>>
  /\ validation = NoValidation
  /\ sanitized = <<>>

\* no error has been thrown
NoError == [name |-> "", code |-> "", path |-> <<>>]

TreeIdle ==
  /\ treeInput = <<>>
  /\ thrown = NoError

\* an option that was not given
NotGiven == "<undefined>"

PluginIdle ==
  /\ pluginOptions = [list |-> FALSE, install |-> NotGiven, uninstall |-> NotGiven]
  /\ ioLog = <<>>
  /\ invoked = <<>>

DoctorIdle ==
  /\ doctorEnv = [node |-> [found |-> FALSE, major |-> 0], managers |-> {},
                  git |-> "", audit |-> FALSE, docker |-> ""]
  /\ results = <<>>

\* generateRootPackageJson has not been called
NoManifest == Manifest(NoName, NoEntries, NoEntries, <<>>)

\* generateNginxConfig has not been called
NoNginx == [upstreams |-> <<>>, locations |-> <<>>]

GenIdle ==
  /\ genConfig = NoConfig
  /\ rootManifest = NoManifest
  /\ nginxConf = NoNginx

InstallersIdle ==
  /\ diskManifest = NoManifest
  /\ installers = <<>>

ExtraIdle == GenIdle /\ InstallersIdle

Init ==
  /\ projectName \in ProjectNames
  /\ options \in CreateOptions
  /\ answers \in Answers
  /\ initialFs \in InitialFilesystems
  /\ fs = initialFs
  /\ pc = "config"
  /\ config = NoConfig
  /\ task = 1
  /\ taskState = [t \in Tasks |-> "pending"]
  /\ todo = <<>>
  /\ spawned = <<>>
  /\ stdout = << MsgCreating >>
  /\ stderr = <<>>
  /\ exitCode = Running
  /\ ComposeIdle
  /\ NamesIdle
  /\ TreeIdle
  /\ PluginIdle
  /\ DoctorIdle
  /\ ExtraIdle

\* interactive mode: the prompt flow builds the Configuration
ConfigureInteractive ==
  /\ pc = "config"
  /\ options.interactive
  /\ config' = ConfigFromPrompts(projectName, answers)
  /\ pc' = "exists"
  /\ UNCHANGED << projectName, options, answers, initialFs, fs, task,
                  taskState, todo, spawned, stdout, stderr, exitCode,
                  otherVars >>

\* non-interactive mode without a project name
RejectMissingName ==
  /\ pc = "config"
  /\ ~options.interactive
  /\ ~Truthy(projectName)
  /\ Fatal(ErrNameRequired)
  /\ UNCHANGED << projectName, options, answers, initialFs, fs, config, task,
                  taskState, todo, spawned, stdout, otherVars >>

\* non-interactive mode with a name that does not validate
RejectInvalidName ==
  /\ pc = "config"
  /\ ~options.interactive
  /\ Truthy(projectName)
  /\ ~validateProjectName(projectName).valid
  /\ Fatal(ErrInvalidName)
  /\ UNCHANGED << projectName, options, answers, initialFs, fs, config, task,
                  taskState, todo, spawned, stdout, otherVars >>

\* non-interactive mode: the flags build the Configuration
ConfigureFromOptions ==
  /\ pc = "config"
  /\ ~options.interactive
  /\ Truthy(projectName)
  /\ validateProjectName(projectName).valid
  /\ config' = ConfigFromOptions(projectName, options)
  /\ pc' = "exists"
  /\ UNCHANGED << projectName, options, answers, initialFs, fs, task,
                  taskState, todo, spawned, stdout, stderr, exitCode,
                  otherVars >>

\* the target path exists: the run fails before the task list is built
RejectExistingTarget ==
  /\ pc = "exists"
  /\ fileExists(fs, <<>>)
  /\ Fatal(ErrTargetExists)
  /\ UNCHANGED << projectName, options, answers, initialFs, fs, config, task,
                  taskState, todo, spawned, stdout, otherVars >>

\* the target path is free: the task list starts running
StartTasks ==
  /\ pc = "exists"
  /\ ~fileExists(fs, <<>>)
  /\ pc' = "tasks"
  /\ UNCHANGED << projectName, options, answers, initialFs, fs, config, task,
                  taskState, todo, spawned, stdout, stderr, exitCode,
                  otherVars >>

\* the list starts its next task
StartTask ==
  /\ pc = "tasks"
  /\ task \in Tasks
  /\ taskState[task] = "pending"
  /\ taskState' = [taskState EXCEPT ![task] = "running"]
  /\ todo' = TaskCalls(task, config)
  /\ UNCHANGED << projectName, options, answers, initialFs, fs, pc, config,
                  task, spawned, stdout, stderr, exitCode, otherVars >>

\* a file-writing task (1-4) issues its next filesystem call, which succeeds
FsCall ==
  /\ pc = "tasks"
  /\ task \in 1..4
  /\ taskState[task] = "running"
  /\ todo # <<>>
  /\ CanApply(fs, Head(todo))
  /\ fs' = Apply(fs, Head(todo))
  /\ todo' = Tail(todo)
  /\ UNCHANGED << projectName, options, answers, initialFs, pc, config, task,
                  taskState, spawned, stdout, stderr, exitCode, otherVars >>

\* the next filesystem call fails (permission denied, disk full, a file in
\* the way): nothing is undone
FsCallFails ==
  /\ pc = "tasks"
  /\ task \in 1..4
  /\ taskState[task] = "running"
  /\ todo # <<>>
  /\ TaskThrows(stderr, ErrFileSystem)
  /\ UNCHANGED << projectName, options, answers, initialFs, fs, config,
                  spawned, stdout, otherVars >>

\* the task function returns
CompleteTask ==
  /\ pc = "tasks"
  /\ task \in Tasks
  /\ taskState[task] = "running"
  /\ todo = <<>>
  /\ taskState' = [taskState EXCEPT ![task] = "completed"]
  /\ task' = NextTask(task)
  /\ todo' = <<>>
  /\ UNCHANGED << projectName, options, answers, initialFs, fs, pc, config,
                  spawned, stdout, stderr, exitCode, otherVars >>

\* initializeGit runs its next git command, which succeeds
GitCall ==
  /\ pc = "tasks"
  /\ task = 5
  /\ taskState[task] = "running"
  /\ todo # <<>>
  /\ spawned' = Append(spawned, Spawn(Head(todo), TRUE))
  /\ todo' = Tail(todo)
  /\ stdout' = IF Tail(todo) = <<>> THEN Append(stdout, MsgGitOk) ELSE stdout
  /\ UNCHANGED << projectName, options, answers, initialFs, fs, pc, config,
                  task, taskState, stderr, exitCode, otherVars >>

\* a git command fails: initializeGit warns and returns normally
GitCallFails ==
  /\ pc = "tasks"
  /\ task = 5
  /\ taskState[task] = "running"
  /\ todo # <<>>
  /\ spawned' = Append(spawned, Spawn(Head(todo), FALSE))
  /\ IF initializeGitThrows
       THEN TaskThrows(Append(stderr, WarnGit), WarnGit)
       ELSE /\ stderr' = Append(stderr, WarnGit)
            /\ todo' = <<>>
            /\ UNCHANGED << pc, task, taskState, exitCode >>
  /\ UNCHANGED << projectName, options, answers, initialFs, fs, config,
                  stdout, otherVars >>

\* installDependencies runs <packageManager> install, which succeeds
InstallCall ==
  /\ pc = "tasks"
  /\ task = 6
  /\ taskState[task] = "running"
  /\ todo # <<>>
  /\ config.packageManager \in PackageManagers
  /\ spawned' = Append(spawned, Spawn(Head(todo), TRUE))
  /\ stdout' = Append(stdout, MsgInstallOk)
  /\ todo' = Tail(todo)
  /\ UNCHANGED << projectName, options, answers, initialFs, fs, pc, config,
                  task, taskState, stderr, exitCode, otherVars >>

\* the install process fails to spawn or exits non-zero
InstallCallFails ==
  /\ pc = "tasks"
  /\ task = 6
  /\ taskState[task] = "running"
  /\ todo # <<>>
  /\ config.packageManager \in PackageManagers
  /\ spawned' = Append(spawned, Spawn(Head(todo), FALSE))
  /\ IF installDependenciesThrows
       THEN TaskThrows(stderr \o << MsgInstallFailed, ErrInstall >>, ErrInstall)
       ELSE /\ stderr' = stderr \o << MsgInstallFailed, ErrInstall >>
            /\ todo' = Tail(todo)
            /\ UNCHANGED << pc, task, taskState, exitCode >>
  /\ UNCHANGED << projectName, options, answers, initialFs, fs, config,
                  stdout, otherVars >>

\* the switch of installDependencies meets a manager it does not know: it
\* throws before any process is started
InstallUnsupported ==
  /\ pc = "tasks"
  /\ task = 6
  /\ taskState[task] = "running"
  /\ todo # <<>>
  /\ config.packageManager \notin PackageManagers
  /\ IF installDependenciesThrows
       THEN TaskThrows(stderr \o << MsgInstallFailed, ErrUnsupportedManager >>,
                       ErrUnsupportedManager)
       ELSE /\ stderr' = stderr \o << MsgInstallFailed, ErrUnsupportedManager >>
            /\ todo' = Tail(todo)
            /\ UNCHANGED << pc, task, taskState, exitCode >>
  /\ UNCHANGED << projectName, options, answers, initialFs, fs, config,
                  spawned, stdout, otherVars >>

\* tasks.run() resolved: the success message, then the process ends normally
Finish ==
  /\ pc = "tasks"
  /\ task \notin Tasks
  /\ stdout' = Append(stdout, MsgSuccess)
  /\ exitCode' = 0
  /\ pc' = "exited"
  /\ UNCHANGED << projectName, options, answers, initialFs, fs, config, task,
                  taskState, todo, spawned, stderr, otherVars >>

Next ==
  \/ ConfigureInteractive
  \/ RejectMissingName
  \/ RejectInvalidName
  \/ ConfigureFromOptions
  \/ RejectExistingTarget
  \/ StartTasks
  \/ StartTask
  \/ FsCall
  \/ FsCallFails
  \/ CompleteTask
  \/ GitCall
  \/ GitCallFails
  \/ InstallCall
  \/ InstallCallFails
  \/ InstallUnsupported
  \/ Finish

Spec == Init /\ [][Next]_vars

(***************************************************************************)
(* The compose generator applied to bounded Configurations                 *)
(***************************************************************************)
MaxApps == 2
MaxServices == 2

AppNames == {"web", "admin"}
ServiceNames == {"api", "user"}

SeqsUpTo(S, n) == UNION { [1..k -> S] : k \in 0..n }

DeclaredApps == { AppConfig(n, "next", 3000) : n \in AppNames }
DeclaredServices ==
  { ServiceConfig(n, "api-gateway", 4000, db) : n \in ServiceNames,
                                                 db \in BOOLEAN }

ComposeConfigs ==
  { MonorepoConfig(ValidName, "pnpm", "default", TRUE, FALSE, FALSE,
                   apps, <<>>, services, <<>>) :
      apps \in SeqsUpTo(DeclaredApps, MaxApps),
      services \in SeqsUpTo(DeclaredServices, MaxServices) }

InitCompose ==
  /\ projectName = NoName
  /\ options \in { o \in CreateOptions : o.docker /\ ~o.interactive
                       /\ o.skipInstall /\ o.skipGit
                       /\ o.packageManager = "pnpm" }
  /\ answers \in Answers
  /\ initialFs = EmptyFs
  /\ fs = initialFs
  /\ pc = "compose"
  /\ config = NoConfig
  /\ task = 1
  /\ taskState = [t \in Tasks |-> "pending"]
  /\ todo = <<>>
  /\ spawned = <<>>
  /\ stdout = <<>>
  /\ stderr = <<>>
  /\ exitCode = Running
  /\ composeInput \in ComposeConfigs
  /\ composeOutput = generateDockerCompose(NoConfig)
  /\ NamesIdle
  /\ TreeIdle
  /\ PluginIdle
  /\ DoctorIdle
  /\ ExtraIdle

\* generateDockerCompose(config) is called and returns
GenerateCompose ==
  /\ pc = "compose"
  /\ composeOutput' = generateDockerCompose(composeInput)
  /\ pc' = "composed"
  /\ UNCHANGED << projectName, options, answers, initialFs, fs, config, task,
                  taskState, todo, spawned, stdout, stderr, exitCode,
                  composeInput, nameVars, treeVars, pluginVars, doctorVars,
                  extraVars >>

NextCompose == GenerateCompose

SpecCompose == InitCompose /\ [][NextCompose]_vars

(***************************************************************************)
(* The name functions applied to bounded strings                           *)
(***************************************************************************)
MaxNameLen == 3
MaxSanitize == 2

\* the characters the enumerated strings are made of: lowercase and capital
\* letters, a digit, the two separators, whitespace and characters outside
\* the grammar
NameAlphabet == {"a", "f", "s", "A", "1", "-", "_", " ", "@", "."}

\* longer strings of interest: the blacklisted name, a scoped package name,
\* a name with a special character after a path separator
LongNames ==
  { <<"n", "o", "d", "e", "_", "m", "o", "d", "u", "l", "e", "s">>,
    <<"@", "a", "/", "b">>,
    <<"a", "/", "b", "!">>,
    <<" ", "A", "\t", " ", "b", "@", "@", " ">> }

NameInputs == SeqsUpTo(NameAlphabet, MaxNameLen) \cup LongNames

\* the create run at rest while a function is exercised on its own
RunIdle(at) ==
  /\ projectName = NoName
  /\ options = CreateOption(<<"default", "pnpm">>, FALSE, FALSE, FALSE, FALSE)
  /\ answers = CHOOSE a \in Answers : a.apps = <<>>
  /\ initialFs = EmptyFs
  /\ fs = initialFs
  /\ pc = at
  /\ config = NoConfig
  /\ task = 1
  /\ taskState = [t \in Tasks |-> "pending"]
  /\ todo = <<>>
  /\ spawned = <<>>
  /\ stdout = <<>>
  /\ stderr = <<>>
  /\ exitCode = Running

InitNames ==
  /\ RunIdle("names")
  /\ ComposeIdle
  /\ nameInput \in NameInputs
  /\ validation = NoValidation
  /\ sanitized = <<>>
  /\ TreeIdle
  /\ PluginIdle
  /\ DoctorIdle
  /\ ExtraIdle

\* validateProjectName(nameInput) is called and returns
ValidateName ==
  /\ pc = "names"
  /\ validation = NoValidation
  /\ validation' = validateProjectName(nameInput)
  /\ UNCHANGED << runVars, composeVars, treeVars, pluginVars, doctorVars, extraVars,
                  nameInput, sanitized >>

\* sanitizeProjectName is called on the input, then on its own result
SanitizeName ==
  /\ pc = "names"
  /\ Len(sanitized) < MaxSanitize
  /\ sanitized' =
       Append(sanitized,
              sanitizeProjectName(IF sanitized = <<>>
                                    THEN nameInput
                                    ELSE sanitized[Len(sanitized)]))
  /\ UNCHANGED << runVars, composeVars, treeVars, pluginVars, doctorVars, extraVars,
                  nameInput, validation >>

NextNames == ValidateName \/ SanitizeName

SpecNames == InitNames /\ [][NextNames]_vars

(***************************************************************************)
(* createDirectoryStructure applied to bounded structures                  *)
(***************************************************************************)
MaxTreeSize == 3

\* keys of a structure (path segments) and file contents
TreeKeys == {"a", "b"}
TreeContents == {"x", "y"}

\* number of entries of a structure, nested ones included
RECURSIVE TreeSize(_)
TreeSize(t) ==
  IF t = <<>> THEN 0 ELSE 1 + TreeSize(Head(t).sub) + TreeSize(Tail(t))

\* the structures of at most n entries whose top-level keys are in keys; the
\* keys of one object are distinct, its entries are in insertion order
RECURSIVE TreesUpTo(_, _)
TreesUpTo(n, keys) ==
  IF n = 0 \/ keys = {} THEN { <<>> }
  ELSE LET entries ==
             { FileEntry(k, c) : k \in keys, c \in TreeContents }
             \cup { NullEntry(k) : k \in keys }
             \cup { TreeEntry(k, sub) :
                      k \in keys, sub \in TreesUpTo(n - 1, TreeKeys) }
       IN  { <<>> } \cup
           UNION { { <<e>> \o rest :
                       rest \in TreesUpTo(n - 1 - TreeSize(e.sub),
                                          keys \ {e.key}) } :
                   e \in entries }

TreeInputs == TreesUpTo(MaxTreeSize, TreeKeys)

\* what is at the base path before the call: nothing, or a file in the way
TreeFilesystems == { EmptyFs, (<<>> :> OldContent) }

\* error codes of a failing filesystem call
IoErrorCodes == {"EACCES", "ENOSPC", "ENOTDIR"}

\* the path property of a system error that has none (an error of the write
\* itself, which works on a file descriptor)
NoPath == <<"<no path>">>

\* what fs-extra rejects with: a Node.js system error
IoError(code, path) == [name |-> "Error", code |-> code, path |-> path]

InitTree ==
  /\ projectName = NoName
  /\ options = CreateOption(<<"default", "pnpm">>, FALSE, FALSE, FALSE, FALSE)
  /\ answers = CHOOSE a \in Answers : a.apps = <<>>
  /\ initialFs \in TreeFilesystems
  /\ fs = initialFs
  /\ pc = "tree"
  /\ config = NoConfig
  /\ task = 1
  /\ taskState = [t \in Tasks |-> "pending"]
  /\ todo = <<>>
  /\ spawned = <<>>
  /\ stdout = <<>>
  /\ stderr = <<>>
  /\ exitCode = Running
  /\ ComposeIdle
  /\ NamesIdle
  /\ treeInput \in TreeInputs
  /\ thrown = NoError
  /\ PluginIdle
  /\ DoctorIdle
  /\ ExtraIdle

\* createDirectoryStructure(base, treeInput) is called with the target
\* directory as base
MaterializeStart ==
  /\ pc = "tree"
  /\ todo' = createDirectoryStructure(<<>>, treeInput)
  /\ pc' = "materializing"
  /\ UNCHANGED << projectName, options, answers, initialFs, fs, config, task,
                  taskState, spawned, stdout, stderr, exitCode, otherVars >>

\* its next filesystem call succeeds
MaterializeCall ==
  /\ pc = "materializing"
  /\ todo # <<>>
  /\ CanApply(fs, Head(todo))
  /\ fs' = Apply(fs, Head(todo))
  /\ todo' = Tail(todo)
  /\ UNCHANGED << projectName, options, answers, initialFs, pc, config, task,
                  taskState, spawned, stdout, stderr, exitCode, otherVars >>

\* its next filesystem call fails: the await rejects and, there being no
\* try/catch, the error leaves createDirectoryStructure as it is
MaterializeCallFails ==
  /\ pc = "materializing"
  /\ todo # <<>>
  /\ \E code \in IoErrorCodes, path \in {Head(todo).path, NoPath} :
       thrown' = IoError(code, path)
  /\ pc' = "threw"
  /\ UNCHANGED << projectName, options, answers, initialFs, fs, config, task,
                  taskState, todo, spawned, stdout, stderr, exitCode,
                  composeVars, nameVars, treeInput, pluginVars, doctorVars,
                  extraVars >>

\* every entry has been processed: the promise resolves
MaterializeReturn ==
  /\ pc = "materializing"
  /\ todo = <<>>
  /\ pc' = "materialized"
  /\ UNCHANGED << projectName, options, answers, initialFs, fs, config, task,
                  taskState, todo, spawned, stdout, stderr, exitCode,
                  otherVars >>

NextTree ==
  \/ MaterializeStart
  \/ MaterializeCall
  \/ MaterializeCallFails
  \/ MaterializeReturn

SpecTree == InitTree /\ [][NextTree]_vars

(***************************************************************************)
(* The plugin command (managePlugins), run in the current directory        *)
(***************************************************************************)
\* the names of AVAILABLE_PLUGINS
AvailablePlugins ==
  {"storybook", "playwright", "cypress", "jest", "prisma", "supabase", "stripe"}

PackageJsonPath == <<"package.json">>
PnpmWorkspacePath == <<"pnpm-workspace.yaml">>

\* contents of a root manifest: one JSON.parse accepts, one it rejects
ManifestJson == "{}"
InvalidJson == "<not json>"

MsgSpecifyAction == "Please specify an action: --list, --install, or --uninstall"
MsgAvailablePlugins == "Available Plugins:"
MsgNextSteps == "Next steps:"
ErrPluginNotFound == "Plugin not found"
ErrNotInProject ==
  "Not in a monorepo project directory. Please run this command from your monorepo root."
ErrRead == "read error"
ErrJson == "Unexpected token"

\* the texts of the spinner of installPlugin / uninstallPlugin
SpinnerStart(kind) ==
  IF kind = "install" THEN "Installing..." ELSE "Uninstalling..."
SpinnerSucceed(kind) ==
  IF kind = "install" THEN "installed successfully"
                      ELSE "uninstalled successfully"
SpinnerFail(kind) ==
  IF kind = "install" THEN "Failed to install plugin"
                      ELSE "Failed to uninstall plugin"

\* a given, non-empty option value
Given(x) == x # NotGiven /\ x # ""

\* managePlugins: list wins over install, install over uninstall
PluginCommand(o) ==
  IF o.list THEN [kind |-> "list", name |-> NotGiven]
  ELSE IF Given(o.install) THEN [kind |-> "install", name |-> o.install]
  ELSE IF Given(o.uninstall) THEN [kind |-> "uninstall", name |-> o.uninstall]
  ELSE [kind |-> "help", name |-> NotGiven]

IoOp(op, path) == [op |-> op, path |-> path]

\* a project test that is satisfied with either of the two files
InProjectEither(f) ==
  fileExists(f, PackageJsonPath) \/ fileExists(f, PnpmWorkspacePath)

\* the project test of installPlugin / uninstallPlugin: both files exist
InProject(f) ==
  fileExists(f, PackageJsonPath) /\ fileExists(f, PnpmWorkspacePath)

\* the fileExists calls of the project test; || does not evaluate its right
\* side when the manifest is missing
ProjectTestCalls(f) ==
  << IoOp("access", PackageJsonPath) >>
  \o (IF fileExists(f, PackageJsonPath)
        THEN << IoOp("access", PnpmWorkspacePath) >> ELSE <<>>)

\* the install and uninstall functions registered in AVAILABLE_PLUGINS: they
\* print one line and return; no file operation
PluginActionCalls(name, kind) == <<>>

PluginOptionValues == {NotGiven, "storybook", "jest", "webpack"}
PluginOptionSets ==
  { [list |-> l, install |-> i, uninstall |-> u] :
      l \in BOOLEAN, i \in PluginOptionValues, u \in PluginOptionValues }

\* the current directory: a project root, one of the two files missing, both
\* missing, a manifest that is not JSON, a directory named package.json
PluginFilesystems ==
  { (<<>> :> Dir) @@ (PackageJsonPath :> ManifestJson)
                  @@ (PnpmWorkspacePath :> OldContent),
    (<<>> :> Dir) @@ (PackageJsonPath :> ManifestJson),
    (<<>> :> Dir) @@ (PnpmWorkspacePath :> OldContent),
    (<<>> :> Dir),
    (<<>> :> Dir) @@ (PackageJsonPath :> InvalidJson)
                  @@ (PnpmWorkspacePath :> OldContent),
    (<<>> :> Dir) @@ (PackageJsonPath :> Dir)
                  @@ (PnpmWorkspacePath :> OldContent) }

InitPlugin ==
  /\ projectName = NoName
  /\ options = CreateOption(<<"default", "pnpm">>, FALSE, FALSE, FALSE, FALSE)
  /\ answers = CHOOSE a \in Answers : a.apps = <<>>
  /\ initialFs \in PluginFilesystems
  /\ fs = initialFs
  /\ pc = "plugin"
  /\ config = NoConfig
  /\ task = 1
  /\ taskState = [t \in Tasks |-> "pending"]
  /\ todo = <<>>
  /\ spawned = <<>>
  /\ stdout = <<>>
  /\ stderr = <<>>
  /\ exitCode = Running
  /\ ComposeIdle
  /\ NamesIdle
  /\ TreeIdle
  /\ DoctorIdle
  /\ ExtraIdle
  /\ pluginOptions \in PluginOptionSets
  /\ ioLog = <<>>
  /\ invoked = <<>>

PluginFrame ==
  UNCHANGED << projectName, options, answers, initialFs, config, task,
               taskState, todo, spawned, composeVars, nameVars, treeVars,
               doctorVars, extraVars, pluginOptions >>

\* --list, or no action at all: the catalogue is printed
ListPlugins ==
  /\ pc = "plugin"
  /\ PluginCommand(pluginOptions).kind \in {"list", "help"}
  /\ stdout' = stdout
       \o (IF PluginCommand(pluginOptions).kind = "help"
             THEN << MsgSpecifyAction >> ELSE <<>>)
       \o << MsgAvailablePlugins >>
  /\ exitCode' = 0
  /\ pc' = "exited"
  /\ PluginFrame
  /\ UNCHANGED << fs, stderr, ioLog, invoked >>

\* the named plugin is not in AVAILABLE_PLUGINS
PluginNotFound ==
  /\ pc = "plugin"
  /\ PluginCommand(pluginOptions).kind \in {"install", "uninstall"}
  /\ PluginCommand(pluginOptions).name \notin AvailablePlugins
  /\ stderr' = Append(stderr, ErrPluginNotFound)
  /\ stdout' = Append(stdout, "Available plugins:")
  /\ exitCode' = 1
  /\ pc' = "exited"
  /\ PluginFrame
  /\ UNCHANGED << fs, ioLog, invoked >>

\* the project test fails: the error is thrown, caught, printed
PluginNotInProject ==
  LET cmd == PluginCommand(pluginOptions)
  IN  /\ pc = "plugin"
      /\ cmd.kind \in {"install", "uninstall"}
      /\ cmd.name \in AvailablePlugins
      /\ ~InProject(fs)
      /\ ioLog' = ioLog \o ProjectTestCalls(fs)
      /\ stderr' = stderr \o << SpinnerStart(cmd.kind), SpinnerFail(cmd.kind),
                                ErrNotInProject >>
      /\ exitCode' = 1
      /\ pc' = "exited"
      /\ PluginFrame
      /\ UNCHANGED << fs, stdout, invoked >>

\* the manifest cannot be read (it is a directory, or the read fails)
PluginReadFails ==
  LET cmd == PluginCommand(pluginOptions)
  IN  /\ pc = "plugin"
      /\ cmd.kind \in {"install", "uninstall"}
      /\ cmd.name \in AvailablePlugins
      /\ InProject(fs)
      /\ ioLog' = ioLog \o ProjectTestCalls(fs)
                        \o << IoOp("readFile", PackageJsonPath) >>
      /\ stderr' = stderr \o << SpinnerStart(cmd.kind), SpinnerFail(cmd.kind),
                                ErrRead >>
      /\ exitCode' = 1
      /\ pc' = "exited"
      /\ PluginFrame
      /\ UNCHANGED << fs, stdout, invoked >>

\* the manifest is read but JSON.parse throws
PluginParseFails ==
  LET cmd == PluginCommand(pluginOptions)
  IN  /\ pc = "plugin"
      /\ cmd.kind \in {"install", "uninstall"}
      /\ cmd.name \in AvailablePlugins
      /\ InProject(fs)
      /\ IsFile(fs, PackageJsonPath)
      /\ fs[PackageJsonPath] = InvalidJson
      /\ ioLog' = ioLog \o ProjectTestCalls(fs)
                        \o << IoOp("readFile", PackageJsonPath) >>
      /\ stderr' = stderr \o << SpinnerStart(cmd.kind), SpinnerFail(cmd.kind),
                                ErrJson >>
      /\ exitCode' = 1
      /\ pc' = "exited"
      /\ PluginFrame
      /\ UNCHANGED << fs, stdout, invoked >>

\* the manifest is read and parsed, the plugin's action is awaited, success
\* is reported and the command returns
PluginRun ==
  LET cmd == PluginCommand(pluginOptions)
      calls == PluginActionCalls(cmd.name, cmd.kind)
  IN  /\ pc = "plugin"
      /\ cmd.kind \in {"install", "uninstall"}
      /\ cmd.name \in AvailablePlugins
      /\ InProject(fs)
      /\ IsFile(fs, PackageJsonPath)
      /\ fs[PackageJsonPath] # InvalidJson
      /\ ioLog' = ioLog \o ProjectTestCalls(fs)
                        \o << IoOp("readFile", PackageJsonPath) >> \o calls
      /\ fs' = [q \in DOMAIN fs |->
                  IF \E k \in 1..Len(calls) :
                       calls[k].op = "writeFile" /\ calls[k].path = q
                    THEN ManifestJson ELSE fs[q]]
      /\ invoked' = Append(invoked, cmd)
      /\ stderr' = stderr \o << SpinnerStart(cmd.kind), SpinnerSucceed(cmd.kind) >>
      /\ stdout' = Append(stdout, MsgNextSteps)
      /\ exitCode' = 0
      /\ pc' = "exited"
      /\ PluginFrame

NextPlugin ==
  \/ ListPlugins
  \/ PluginNotFound
  \/ PluginNotInProject
  \/ PluginReadFails
  \/ PluginParseFails
  \/ PluginRun

SpecPlugin == InitPlugin /\ [][NextPlugin]_vars

(***************************************************************************)
(* The doctor command (runDoctor), run in the current directory            *)
(***************************************************************************)
\* checkNodeVersion passes from this major version on
MinNodeMajor == 16

DiagnosticResult(name, status, message) ==
  [name |-> name, status |-> status, message |-> message]

\* node --version: not on the PATH, or found with a major version
NodeAnswers ==
  { [found |-> FALSE, major |-> 0] }
  \cup { [found |-> TRUE, major |-> m] : m \in {14, 16, 20} }

\* git: not installed; installed but its second call fails; installed outside
\* a repository; installed inside one
GitAnswers == {"missing", "broken", "norepo", "repo"}

\* docker: not installed; without docker-compose; with it
DockerAnswers == {"missing", "nocompose", "compose"}

DoctorEnvironments ==
  { [node |-> n, managers |-> m, git |-> g, audit |-> a, docker |-> d] :
      n \in NodeAnswers, m \in SUBSET PackageManagers, g \in GitAnswers,
      a \in BOOLEAN, d \in DockerAnswers }

RequiredFiles == { <<"package.json">>, <<"pnpm-workspace.yaml">>, <<"turbo.json">> }
OptionalFiles == { <<"apps">>, <<"packages">>, <<"services">>, <<"configs">> }

\* the current directory: empty; a bare project; a project with apps and
\* installed dependencies; a project that lost its turbo.json
DoctorFilesystems ==
  { (<<>> :> Dir),
    (<<>> :> Dir) @@ [p \in RequiredFiles |-> OldContent],
    (<<>> :> Dir) @@ [p \in RequiredFiles |-> OldContent]
                  @@ (<<"apps">> :> Dir) @@ (<<"node_modules">> :> Dir),
    (<<>> :> Dir) @@ (<<"package.json">> :> OldContent)
                  @@ (<<"pnpm-workspace.yaml">> :> OldContent)
                  @@ (<<"apps">> :> Dir) }

checkNodeVersion(env) ==
  IF ~env.node.found
    THEN DiagnosticResult("Node.js Version", "fail", "Node.js not found")
  ELSE IF env.node.major >= MinNodeMajor
    THEN DiagnosticResult("Node.js Version", "pass", "Node.js (ok)")
    ELSE DiagnosticResult("Node.js Version", "fail", "Node.js (too old)")

checkPackageManagers(env) ==
  IF env.managers = {}
    THEN DiagnosticResult("Package Managers", "fail", "No package managers found")
    ELSE DiagnosticResult("Package Managers", "pass", "Recommended")

checkGit(env) ==
  CASE env.git = "missing" -> DiagnosticResult("Git", "warn", "Git not found")
    [] env.git = "broken" -> DiagnosticResult("Git", "fail", "Git check failed")
    [] env.git = "norepo" -> DiagnosticResult("Git", "warn", "No repository")
    [] env.git = "repo" -> DiagnosticResult("Git", "pass", "Repository detected")

checkProjectStructure(f) ==
  IF \E p \in RequiredFiles : ~fileExists(f, p)
    THEN DiagnosticResult("Project Structure", "fail", "Missing")
  ELSE IF \A p \in OptionalFiles : ~fileExists(f, p)
    THEN DiagnosticResult("Project Structure", "warn", "Basic structure found")
    ELSE DiagnosticResult("Project Structure", "pass", "Found")

checkDependencies(env, f) ==
  IF ~fileExists(f, <<"package.json">>)
    THEN DiagnosticResult("Dependencies", "warn", "No package.json found")
  ELSE IF ~fileExists(f, <<"node_modules">>)
    THEN DiagnosticResult("Dependencies", "warn", "Dependencies not installed")
  ELSE IF env.audit
    THEN DiagnosticResult("Dependencies", "pass", "Dependencies installed and secure")
    ELSE DiagnosticResult("Dependencies", "warn", "Security vulnerabilities found")

checkDocker(env) ==
  CASE env.docker = "missing" -> DiagnosticResult("Docker", "warn", "Docker not found")
    [] env.docker = "nocompose" ->
         DiagnosticResult("Docker", "warn", "Docker Compose not found")
    [] env.docker = "compose" ->
         DiagnosticResult("Docker", "pass", "Docker Compose available")

MsgDiagnostics == "Running monorepo diagnostics..."
MsgResults == "Diagnostic Results:"
MsgAllPassed == "All checks passed! Your monorepo is ready for development."
MsgCritical == "critical issues found:"
MsgWarnings == "warnings:"
MsgToFix == "To fix these issues:"

WithStatus(rs, status) == SelectSeq(rs, LAMBDA r : r.status = status)

\* what provideRecommendations prints
provideRecommendations(rs) ==
  IF WithStatus(rs, "fail") = <<>> /\ WithStatus(rs, "warn") = <<>>
    THEN << MsgAllPassed >>
    ELSE (IF WithStatus(rs, "fail") # <<>> THEN << MsgCritical >> ELSE <<>>)
         \o (IF WithStatus(rs, "warn") # <<>> THEN << MsgWarnings >> ELSE <<>>)
         \o << MsgToFix >>

\* runDoctor returns after printing: the process ends with status 0 whatever
\* the results are
DoctorExitStatus(rs) == 0

InitDoctor ==
  /\ projectName = NoName
  /\ options = CreateOption(<<"default", "pnpm">>, FALSE, FALSE, FALSE, FALSE)
  /\ answers = CHOOSE a \in Answers : a.apps = <<>>
  /\ initialFs \in DoctorFilesystems
  /\ fs = initialFs
  /\ pc = "doctor"
  /\ config = NoConfig
  /\ task = 1
  /\ taskState = [t \in Tasks |-> "pending"]
  /\ todo = <<>>
  /\ spawned = <<>>
  /\ stdout = << MsgDiagnostics >>
  /\ stderr = <<>>
  /\ exitCode = Running
  /\ ComposeIdle
  /\ NamesIdle
  /\ TreeIdle
  /\ PluginIdle
  /\ ExtraIdle
  /\ doctorEnv \in DoctorEnvironments
  /\ results = <<>>

\* results.push(await check()) for the k-th check of the battery
DoctorCheck(k, result) ==
  /\ pc = "doctor"
  /\ Len(results) = k - 1
  /\ results' = Append(results, result)
  /\ UNCHANGED << runVars, composeVars, nameVars, treeVars, pluginVars,
                  extraVars, doctorEnv >>

CheckNodeVersion == DoctorCheck(1, checkNodeVersion(doctorEnv))
CheckPackageManagers == DoctorCheck(2, checkPackageManagers(doctorEnv))
CheckGit == DoctorCheck(3, checkGit(doctorEnv))
CheckProjectStructure == DoctorCheck(4, checkProjectStructure(fs))
CheckDependencies == DoctorCheck(5, checkDependencies(doctorEnv, fs))
CheckDocker == DoctorCheck(6, checkDocker(doctorEnv))

\* displayResults, provideRecommendations, then runDoctor returns
DoctorReport ==
  /\ pc = "doctor"
  /\ Len(results) = 6
  /\ stdout' = stdout \o << MsgResults >> \o provideRecommendations(results)
  /\ exitCode' = DoctorExitStatus(results)
  /\ pc' = "exited"
  /\ UNCHANGED << projectName, options, answers, initialFs, fs, config, task,
                  taskState, todo, spawned, stderr, otherVars >>

NextDoctor ==
  \/ CheckNodeVersion
  \/ CheckPackageManagers
  \/ CheckGit
  \/ CheckProjectStructure
  \/ CheckDependencies
  \/ CheckDocker
  \/ DoctorReport

SpecDoctor == InitDoctor /\ [][NextDoctor]_vars

(***************************************************************************)
(* The manifest and reverse-proxy generators applied to bounded            *)
(* Configurations                                                          *)
(***************************************************************************)
ToolLists ==
  { <<>>,
    << ToolConfig("eslint", TRUE) >>,
    << ToolConfig("eslint", FALSE) >>,
    << ToolConfig("prettier", TRUE) >>,
    << ToolConfig("prettier", TRUE), ToolConfig("eslint", TRUE) >>,
    << ToolConfig("prettier", FALSE), ToolConfig("eslint", FALSE) >> }

GenConfigs ==
  { MonorepoConfig(ValidName, pm, "default", docker, FALSE, FALSE,
                   apps, <<>>, services, tools) :
      pm \in PackageManagers, docker \in BOOLEAN,
      apps \in SeqsUpTo(DeclaredApps, MaxApps),
      services \in SeqsUpTo(DeclaredServices, 1),
      tools \in ToolLists }

InitGenerate ==
  /\ RunIdle("generate")
  /\ ComposeIdle
  /\ NamesIdle
  /\ TreeIdle
  /\ PluginIdle
  /\ DoctorIdle
  /\ InstallersIdle
  /\ genConfig \in GenConfigs
  /\ rootManifest = NoManifest
  /\ nginxConf = NoNginx

\* generateRootPackageJson(config) is called and returns
GenerateRootManifest ==
  /\ pc = "generate"
  /\ rootManifest = NoManifest
  /\ rootManifest' = generateRootPackageJson(genConfig)
  /\ UNCHANGED << runVars, composeVars, nameVars, treeVars, pluginVars,
                  doctorVars, installerVars, genConfig, nginxConf >>

\* generateDockerConfig runs for a Configuration with docker and calls
\* generateNginxConfig()
GenerateNginx ==
  /\ pc = "generate"
  /\ genConfig.docker
  /\ nginxConf = NoNginx
  /\ nginxConf' = generateNginxConfig
  /\ UNCHANGED << runVars, composeVars, nameVars, treeVars, pluginVars,
                  doctorVars, installerVars, genConfig, rootManifest >>

NextGenerate == GenerateRootManifest \/ GenerateNginx

SpecGenerate == InitGenerate /\ [][NextGenerate]_vars

(***************************************************************************)
(* generateProjectStructure applied to Configurations with repeated names  *)
(***************************************************************************)
StructureApps ==
  { AppConfig("web", "next", 3000), AppConfig("web", "vue", 3001),
    AppConfig("admin", "react", 3002) }
StructurePackages == { PackageConfig("ui", "ui"), PackageConfig("ui", "utils") }
StructureServices ==
  { ServiceConfig("api", "api-gateway", 4000, TRUE),
    ServiceConfig("api", "user-service", 4001, FALSE) }

StructureConfig(apps, packages, services) ==
  MonorepoConfig(ValidName, "pnpm", "default", FALSE, TRUE, TRUE,
                 apps, packages, services, <<>>)

\* one of the three lists is filled, with or without a repeated name
StructureConfigs ==
  { StructureConfig(apps, <<>>, <<>>) : apps \in SeqsUpTo(StructureApps, MaxApps) }
  \cup { StructureConfig(<<>>, packages, <<>>) :
           packages \in SeqsUpTo(StructurePackages, MaxApps) }
  \cup { StructureConfig(<<>>, <<>>, services) :
           services \in SeqsUpTo(StructureServices, MaxServices) }

InitStructure ==
  /\ projectName = ValidName
  /\ options = CreateOption(<<"default", "pnpm">>, FALSE, TRUE, TRUE, TRUE)
  /\ answers = CHOOSE a \in Answers : a.apps = <<>>
  /\ initialFs = EmptyFs
  /\ fs = initialFs
  /\ pc = "structure"
  /\ config \in StructureConfigs
  /\ task = 1
  /\ taskState = [t \in Tasks |-> "pending"]
  /\ todo = <<>>
  /\ spawned = <<>>
  /\ stdout = <<>>
  /\ stderr = <<>>
  /\ exitCode = Running
  /\ ComposeIdle
  /\ NamesIdle
  /\ TreeIdle
  /\ PluginIdle
  /\ DoctorIdle
  /\ ExtraIdle

\* generateProjectStructure(projectPath, config) is called; its filesystem
\* calls are then issued one at a time
StructureStart ==
  /\ pc = "structure"
  /\ todo' = generateProjectStructure(config)
  /\ pc' = "materializing"
  /\ UNCHANGED << projectName, options, answers, initialFs, fs, config, task,
                  taskState, spawned, stdout, stderr, exitCode, otherVars >>

NextStructure ==
  \/ StructureStart
  \/ MaterializeCall
  \/ MaterializeCallFails
  \/ MaterializeReturn

SpecStructure == InitStructure /\ [][NextStructure]_vars

(***************************************************************************)
(* The installers installStorybook and installPlaywright, each called with *)
(* the manifest its caller has read from ./package.json                    *)
(***************************************************************************)
Installers == {"storybook", "playwright"}

StorybookDevDependencies ==
  ("@storybook/react" :> "^7.0.0")
  @@ ("@storybook/addon-essentials" :> "^7.0.0")
  @@ ("@storybook/addon-interactions" :> "^7.0.0")
  @@ ("@storybook/testing-library" :> "^0.2.0")

StorybookScripts ==
  ("storybook" :> "storybook dev -p 6006") @@ ("build-storybook" :> "storybook build")

PlaywrightDevDependencies == ("@playwright/test" :> "^1.40.0")

PlaywrightScripts ==
  ("test:e2e" :> "playwright test")
  @@ ("test:e2e:ui" :> "playwright test --ui")
  @@ ("test:e2e:report" :> "playwright show-report")

\* installStorybook up to its write of ./package.json: the config it was
\* given with its entries assigned (a missing table counts as empty)
installStorybook(cfg) ==
  [cfg EXCEPT !.devDependencies = StorybookDevDependencies @@ @,
              !.scripts = StorybookScripts @@ @]

\* an installer that builds fresh tables instead of extending the given ones
installPlaywrightFresh(cfg) ==
  [cfg EXCEPT !.devDependencies = PlaywrightDevDependencies,
              !.scripts = PlaywrightScripts]

\* installPlaywright up to its write of ./package.json
installPlaywright(cfg) ==
  [cfg EXCEPT !.devDependencies = PlaywrightDevDependencies @@ @,
              !.scripts = PlaywrightScripts @@ @]

InstallerConfig(i, cfg) ==
  IF i = "storybook" THEN installStorybook(cfg) ELSE installPlaywright(cfg)

\* the configuration file an installer writes after the manifest
InstallerFile(i) ==
  IF i = "storybook" THEN writeFile(<<".storybook", "main.ts">>, "storybookConfig")
                     ELSE writeFile(<<"playwright.config.ts">>, "playwrightConfig")

\* ./package.json before the installers run: the `{}` of the tests, or a
\* generated root manifest
InstallerManifests ==
  { NoManifest } \cup { generateRootPackageJson(c) : c \in GenConfigs }

\* how many installers have written ./package.json
ManifestWrites(ins) == Cardinality({ i \in Installers : ins[i].wrote > 0 })

InitInstallers ==
  /\ RunIdle("installers")
  /\ ComposeIdle
  /\ NamesIdle
  /\ TreeIdle
  /\ PluginIdle
  /\ DoctorIdle
  /\ GenIdle
  /\ diskManifest \in InstallerManifests
  /\ installers = [i \in Installers |->
                     [pc |-> "start", config |-> NoManifest, readAt |-> 0,
                      wrote |-> 0]]

InstallerFrame ==
  UNCHANGED << projectName, options, answers, initialFs, pc, config, task,
               taskState, todo, spawned, stdout, stderr, exitCode,
               composeVars, nameVars, treeVars, pluginVars, doctorVars,
               genVars >>

\* the caller reads ./package.json and parses it (installPlugin)
InstallerRead(i) ==
  /\ installers[i].pc = "start"
  /\ installers' = [installers EXCEPT
                      ![i].pc = "read",
                      ![i].config = diskManifest,
                      ![i].readAt = ManifestWrites(installers)]
  /\ UNCHANGED << fs, diskManifest >>
  /\ InstallerFrame

\* the installer assigns its entries to the config it was given and writes
\* the whole of it to ./package.json
InstallerWriteManifest(i) ==
  /\ installers[i].pc = "read"
  /\ LET cfg == InstallerConfig(i, installers[i].config)
     IN  /\ diskManifest' = cfg
         /\ installers' = [installers EXCEPT
                             ![i].pc = "wrote",
                             ![i].config = cfg,
                             ![i].wrote = ManifestWrites(installers) + 1]
  /\ UNCHANGED fs
  /\ InstallerFrame

\* the installer writes its own configuration file and returns
InstallerWriteFile(i) ==
  /\ installers[i].pc = "wrote"
  /\ fs' = ApplyCalls(fs, InstallerFile(i))
  /\ installers' = [installers EXCEPT ![i].pc = "done"]
  /\ UNCHANGED diskManifest
  /\ InstallerFrame

\* a write is rejected: the installer throws and nothing is undone
InstallerWriteFails(i) ==
  /\ installers[i].pc \in {"read", "wrote"}
  /\ installers' = [installers EXCEPT ![i].pc = "failed"]
  /\ UNCHANGED << fs, diskManifest >>
  /\ InstallerFrame

NextInstallers ==
  \/ \E i \in Installers : InstallerRead(i)
  \/ \E i \in Installers : InstallerWriteManifest(i)
  \/ \E i \in Installers : InstallerWriteFile(i)
  \/ \E i \in Installers : InstallerWriteFails(i)

SpecInstallers == InitInstallers /\ [][NextInstallers]_vars

(***************************************************************************)
(* Properties of the create run                                            *)
(***************************************************************************)
InSeq(x, s) == \E i \in 1..Len(s) : s[i] = x

AllPending == \A t \in Tasks : taskState[t] = "pending"
Exited == pc = "exited"
ExitedNonZero == pc = "exited" /\ exitCode # 0 /\ exitCode # Running
SuccessPrinted == InSeq(MsgSuccess, stdout)

GitSpawned == \E k \in 1..Len(spawned) : spawned[k].cmd[1] = "git"
GitFailed ==
  \E k \in 1..Len(spawned) : spawned[k].cmd[1] = "git" /\ ~spawned[k].ok
InstallSpawned == \E k \in 1..Len(spawned) : spawned[k].cmd[2] = "install"
InstallFailed ==
  \E k \in 1..Len(spawned) : spawned[k].cmd[2] = "install" /\ ~spawned[k].ok
InstallSucceeded ==
  \E k \in 1..Len(spawned) : spawned[k].cmd[2] = "install" /\ spawned[k].ok

\* every file and directory that the calls of task t create is on disk
Materialized(t) ==
  \A i \in 1..Len(TaskCalls(t, config)) :
    LET call == TaskCalls(t, config)[i]
    IN  IF call.op = "writeFile" THEN IsFile(fs, call.path)
                                 ELSE IsDir(fs, call.path)

\* C1: when the target path of the run's Configuration exists before the
\* run (as a file or as a directory), the run goes from the existence check
\* straight to the failure exit with the target-exists error and a
\* non-zero status: no task ever leaves pending, no process is started and
\* nothing under the target path is created or modified.
C1_ExistingTargetFailsBeforeAnyStep ==
  (config # NoConfig /\ Exists(initialFs, <<>>)) =>
    /\ pc \in {"exists", "exited"}
    /\ AllPending
    /\ fs = initialFs
    /\ spawned = <<>>
    /\ Exited => /\ ExitedNonZero
                 /\ InSeq(ErrTargetExists, stderr)
                 /\ ~SuccessPrinted

C1_Witness ==
  /\ Exited
  /\ config # NoConfig
  /\ IsFile(initialFs, <<"package.json">>)
  /\ InSeq(ErrTargetExists, stderr)

\* C2: the six tasks run one at a time in the order 1..6: a task has left
\* pending only when every earlier task has completed, at most one task is
\* running, and the install process is started only when the root manifest
\* has been written.
C2_StepsRunInOrderOneAtATime ==
  /\ \A t \in Tasks :
       taskState[t] # "pending" =>
         \A u \in 1..(t - 1) : taskState[u] = "completed"
  /\ Cardinality({t \in Tasks : taskState[t] = "running"}) <= 1
  /\ InstallSpawned =>
       /\ IsFile(fs, <<"package.json">>)
       /\ fs[<<"package.json">>] = "generateRootPackageJson"

C2_Witness ==
  /\ taskState[6] = "running"
  /\ InstallSpawned
  /\ GitSpawned

\* C3: when one of the file-writing tasks 1-4 fails, the run is over with a
\* non-zero status: every later task is still pending, no git or install
\* process was started, the success message is not printed, the failed task
\* is not run again, and the failure leaves the filesystem as the calls
\* before it made it.
C3_FileStepFailureIsFatal ==
  /\ [](\A t \in 1..4 :
          taskState[t] = "failed" =>
            /\ ExitedNonZero
            /\ \A u \in (t + 1)..6 : taskState[u] = "pending"
            /\ spawned = <<>>
            /\ ~SuccessPrinted)
  /\ [][(\E t \in 1..4 : taskState'[t] = "failed") =>
          (fs' = fs /\ \A t \in 1..4 : taskState[t] = "failed" =>
                                        taskState'[t] = "failed")]_vars

C3_Witness ==
  /\ taskState[3] = "failed"
  /\ Exited
  /\ IsFile(fs, <<"package.json">>)
  /\ IsFile(fs, <<"docs", "api", "rest-api.md">>)
  /\ ~Exists(fs, <<".vscode", "settings.json">>)

\* C4: a failing git command does not fail the run: task 5 is not marked
\* failed, the warning is on the error stream, the run does not end before
\* task 6 has run (with the install process started unless skipInstall),
\* and when task 6 completes the run ends with the success message and
\* status 0.
C4_GitFailureIsNotFatal ==
  GitFailed =>
    /\ taskState[5] # "failed"
    /\ InSeq(WarnGit, stderr)
    /\ Exited => taskState[6] \in {"completed", "failed"}
    /\ (Exited /\ ~config.skipInstall
          /\ config.packageManager \in PackageManagers) => InstallSpawned
    /\ (Exited /\ taskState[6] = "completed") =>
         (exitCode = 0 /\ SuccessPrinted)

C4_Witness ==
  /\ GitFailed
  /\ Exited
  /\ exitCode = 0
  /\ InstallSucceeded

\* C5: a failing install process is fatal: task 6 is failed, the run is
\* over with a non-zero status and without the success message, and what
\* tasks 1-4 wrote is still on disk.
C5_InstallFailureIsFatal ==
  InstallFailed =>
    /\ taskState[6] = "failed"
    /\ ExitedNonZero
    /\ ~SuccessPrinted
    /\ \A t \in 1..4 : taskState[t] = "completed" /\ Materialized(t)

C5_Witness ==
  /\ InstallFailed
  /\ Exited
  /\ config.docker
  /\ IsFile(fs, <<"docker-compose.yml">>)

\* a task that the Configuration turns into a no-op
Skipped(t) ==
  \/ t = 4 /\ ~config.docker
  \/ t = 5 /\ config.skipGit
  \/ t = 6 /\ config.skipInstall

\* the step did what it is there for
StepSucceeded(t) ==
  /\ taskState[t] = "completed"
  /\ t \in 1..4 => Materialized(t)
  /\ t = 5 => ~GitFailed /\ Len(SelectSeq(spawned, LAMBDA x : x.cmd[1] = "git")) = 3
  /\ t = 6 => InstallSucceeded

\* C6 as stated: the run ends with status 0 and the success message only
\* if every step that is not skipped succeeded, and with a non-zero status
\* otherwise.
C6_SucceededOnlyIfEveryStepSucceeded ==
  Exited =>
    /\ exitCode # Running
    /\ exitCode = 0 <=> SuccessPrinted
    /\ exitCode = 0 => \A t \in Tasks : ~Skipped(t) => StepSucceeded(t)

\* C6 amended: the run ends with status 0 and the success message only if
\* every step other than version-control init that is not skipped
\* succeeded and the version-control task has returned (with or without a
\* failed git command); in every other case the status is non-zero.
C6_SucceededOnlyIfEveryFatalStepSucceeded ==
  Exited =>
    /\ exitCode # Running
    /\ exitCode = 0 <=> SuccessPrinted
    /\ exitCode = 0 =>
         /\ \A t \in Tasks \ {5} : ~Skipped(t) => StepSucceeded(t)
         /\ \A t \in Tasks : taskState[t] = "completed"
    /\ (\E t \in Tasks : taskState[t] # "completed") => exitCode # 0

C6_Witness ==
  /\ Exited
  /\ exitCode = 0
  /\ GitFailed
  /\ InstallSucceeded
  /\ config.docker

\* C7: a git process is started only when the Configuration's skipGit is
\* false and a package-manager process only when its skipInstall is false;
\* with both flags set no process is started at all, and the run still
\* ends with status 0 and the success message once tasks 1-4 completed.
C7_ProcessesOnlyForUnskippedSteps ==
  /\ GitSpawned => ~config.skipGit
  /\ InstallSpawned => ~config.skipInstall
  /\ (config.skipGit /\ config.skipInstall) =>
       /\ spawned = <<>>
       /\ (Exited /\ \A t \in 1..4 : taskState[t] = "completed") =>
            (exitCode = 0 /\ SuccessPrinted)

C7_Witness ==
  /\ Exited
  /\ config.skipGit
  /\ config.skipInstall
  /\ exitCode = 0
  /\ spawned = <<>>
  /\ IsFile(fs, <<"turbo.json">>)

\* the files that task 4 writes
DockerConfigFile(p) ==
  p \in { <<"docker-compose.yml">>, <<".dockerignore">>,
          <<"configs", "docker", "Dockerfile.web">>,
          <<"configs", "docker", "Dockerfile.api">>,
          <<"configs", "nginx", "nginx.conf">> }

DevContainerFile == <<".devcontainer", "devcontainer.json">>

\* a path that belongs to container tooling
ContainerRelated(p) ==
  \/ DockerConfigFile(p)
  \/ Len(p) >= 2 /\ p[1] = "configs" /\ p[2] \in {"docker", "nginx"}
  \/ Len(p) >= 1 /\ p[1] = ".devcontainer"

\* C8 as stated: with docker=false no container-related file exists under
\* the generated root in any state of the run.
C8_NoContainerFileWithoutDocker ==
  (config # NoConfig /\ ~config.docker) =>
    \A p \in DOMAIN fs : IsFile(fs, p) => ~ContainerRelated(p)

\* C8 amended: with docker=false task 4 writes nothing, so none of
\* docker-compose.yml, configs/docker/Dockerfile.*, .dockerignore and
\* configs/nginx/nginx.conf ever exists and neither do configs/docker and
\* configs/nginx; the only container-related file under the generated root
\* is .devcontainer/devcontainer.json, which task 1 writes whatever the
\* docker flag is.
C8_NoDockerConfigWithoutDocker ==
  (config # NoConfig /\ ~config.docker) =>
    /\ \A p \in DOMAIN fs :
         (ContainerRelated(p) /\ IsFile(fs, p)) => p = DevContainerFile
    /\ \A p \in DOMAIN fs : ~DockerConfigFile(p)
    /\ ~Exists(fs, <<"configs", "docker">>)
    /\ ~Exists(fs, <<"configs", "nginx">>)
    /\ taskState[1] = "completed" => IsFile(fs, DevContainerFile)

C8_Witness ==
  /\ Exited
  /\ exitCode = 0
  /\ ~config.docker
  /\ IsFile(fs, DevContainerFile)
  /\ taskState[4] = "completed"

\* the name grammar of the Configuration model: a lowercase letter, then
\* lowercase letters, digits, hyphens or underscores
GrammarOk(name) ==
  /\ Len(name) >= 1
  /\ name[1] \in LowerChars
  /\ \A i \in 2..Len(name) : name[i] \in LowerChars \cup DigitChars \cup {"-", "_"}

NameMissing == projectName = NoName \/ projectName = <<>>

BlockNames(blocks) == [i \in 1..Len(blocks) |-> blocks[i].name]
WebBlocks(d) == SelectSeq(d.services, LAMBDA b : b.dockerfile = WebDockerfile)
ApiBlocks(d) == SelectSeq(d.services, LAMBDA b : b.dockerfile = ApiDockerfile)
ImageBlocks(d, image) == SelectSeq(d.services, LAMBDA b : b.image = image)

NeedsDatabase(cfg) == \E i \in 1..Len(cfg.services) : cfg.services[i].database

\* C9: the compose descriptor has one application block per declared app
\* and one backend block per declared service, in declaration order and
\* under their names, one redis block, one nginx block and nothing else,
\* except one postgres block together with the postgres_data volume exactly
\* when some declared service has database=true.
C9_ComposeBlocksMatchConfiguration ==
  pc = "composed" =>
    LET d == composeOutput
        cfg == composeInput
        pg == IF NeedsDatabase(cfg) THEN 1 ELSE 0
    IN  /\ BlockNames(WebBlocks(d)) = [i \in 1..Len(cfg.apps) |-> cfg.apps[i].name]
        /\ BlockNames(ApiBlocks(d))
             = [i \in 1..Len(cfg.services) |-> cfg.services[i].name]
        /\ Len(ImageBlocks(d, "redis:7-alpine")) = 1
        /\ Len(ImageBlocks(d, "nginx:alpine")) = 1
        /\ Len(ImageBlocks(d, "postgres:15")) = pg
        /\ Len(d.services) = Len(cfg.apps) + Len(cfg.services) + 2 + pg
        /\ d.volumes = (IF pg = 1 THEN << "postgres_data" >> ELSE <<>>)
        /\ \A i \in 1..Len(d.services) :
             d.services[i].image = "postgres:15" =>
               /\ d.services[i].name = "postgres"
               /\ d.services[i].volumes
                    = << "postgres_data:/var/lib/postgresql/data" >>

C9_Witness ==
  /\ pc = "composed"
  /\ Len(composeInput.apps) = 2
  /\ Len(composeInput.services) = 2
  /\ composeInput.services[1].database
  /\ ~composeInput.services[2].database
  /\ Len(composeOutput.services) = 7

(***************************************************************************)
(* The closed enumerations of a Configuration                              *)
(***************************************************************************)
validatePackageManager(pm) == pm \in {"npm", "yarn", "pnpm"}

validateTemplate(template) ==
  template \in {"default", "next-fullstack", "vue-fullstack", "react-fullstack",
                "minimal", "enterprise"}

OutOfEnum(cfg) ==
  ~validatePackageManager(cfg.packageManager) \/ ~validateTemplate(cfg.template)

\* C11: a create request whose packageManager or template is outside its
\* enumeration is rejected before any I/O: while the run holds a
\* Configuration carrying such a value no step has started and nothing has
\* been written, and once it has ended it has ended with a non-zero status.
C11_OutOfEnumRejectedBeforeAnyIO ==
  (config # NoConfig /\ OutOfEnum(config)) =>
    /\ AllPending
    /\ fs = initialFs
    /\ spawned = <<>>
    /\ Exited => ExitedNonZero

\* a run with an out-of-enumeration template that ended with the success
\* message after writing the project
C11_Witness ==
  /\ config # NoConfig
  /\ ~validateTemplate(config.template)
  /\ validatePackageManager(config.packageManager)
  /\ SuccessPrinted
  /\ exitCode = 0
  /\ IsFile(fs, <<"package.json">>)
  /\ InstallSucceeded

(***************************************************************************)
(* The name of a Configuration that is generated                           *)
(***************************************************************************)
ReachedStepOne == taskState[1] # "pending"

\* C12: in every create run that reaches step (1), interactive or not and
\* also when a project name is passed together with --interactive, the
\* Configuration's name is non-empty and passes validateProjectName.
C12_GeneratedNameIsValid ==
  ReachedStepOne =>
    /\ config.name # <<>>
    /\ config.name # NoName
    /\ validateProjectName(config.name).valid

\* an interactive run given an invalid name on the command line that wrote
\* the project under that name and ended with the success message
C12_Witness ==
  /\ options.interactive
  /\ Truthy(projectName)
  /\ ~validateProjectName(projectName).valid
  /\ config.name = projectName
  /\ taskState[1] = "completed"
  /\ IsFile(fs, <<"package.json">>)
  /\ SuccessPrinted

(***************************************************************************)
(* Properties of the name functions                                        *)
(***************************************************************************)
Range(s) == { s[i] : i \in DOMAIN s }

Validated == validation # NoValidation

\* names the package-name library keeps for itself
ReservedName(name) ==
  \/ toLowerCase(name) \in BlacklistedNames \cup CoreModuleNames
  \/ Len(name) > 214

\* C13 as stated: validateProjectName returns {valid: true, errors: []} for
\* every name that matches the grammar, and valid=false with at least one
\* error for every input that is empty, starts with a non-letter or
\* contains a character outside the grammar's set.
C13_GrammarDecidesValidity ==
  Validated =>
    IF GrammarOk(nameInput)
      THEN validation = [valid |-> TRUE, errors |-> <<>>]
      ELSE ~validation.valid /\ Len(validation.errors) >= 1

\* C13 amended: the same, except that a name matching the grammar which the
\* package-name library reserves (a blacklisted name, the name of a core
\* module, a name of more than 214 characters) is invalid, with at least
\* one error.
C13_GrammarAndLibraryDecideValidity ==
  Validated =>
    IF GrammarOk(nameInput) /\ ~ReservedName(nameInput)
      THEN validation = [valid |-> TRUE, errors |-> <<>>]
      ELSE ~validation.valid /\ Len(validation.errors) >= 1

\* the name of a core module, which matches the grammar, was refused
C13_Witness ==
  /\ Validated
  /\ nameInput = <<"f", "s">>
  /\ GrammarOk(nameInput)
  /\ validation = [valid |-> FALSE, errors |-> <<"is a core module name">>]

\* C14: whenever validateProjectName returns valid=false, its errors list
\* holds every package-name error, every package-name warning and, whenever
\* the grammar is violated, the grammar message, each once and nothing else.
C14_ErrorsAreTheUnionOfViolations ==
  (Validated /\ ~validation.valid) =>
    LET npm == validateNpmPackageName(nameInput)
        grammar == IF GrammarOk(nameInput) THEN {} ELSE {GrammarMessage}
    IN  /\ Range(validation.errors)
             = Range(npm.errors) \cup Range(npm.warnings) \cup grammar
        /\ Len(validation.errors)
             = Len(npm.errors) + Len(npm.warnings) + Cardinality(grammar)

\* an input with four independent violations, all reported
C14_Witness ==
  /\ Validated
  /\ ~validation.valid
  /\ nameInput = <<" ", "A">>
  /\ Len(validation.errors) = 4
  /\ InSeq(GrammarMessage, validation.errors)
  /\ InSeq("name can no longer contain capital letters", validation.errors)

\* C15: sanitizeProjectName is idempotent: sanitizing its own result gives
\* the same string.
C15_SanitizeIsIdempotent ==
  Len(sanitized) >= 2 =>
    \A k \in 2..Len(sanitized) : sanitized[k] = sanitized[1]

\* an input that every stage of the sanitizer changes, sanitized twice
C15_Witness ==
  /\ Len(sanitized) = 2
  /\ nameInput = <<" ", "A", "\t", " ", "b", "@", "@", " ">>
  /\ sanitized[1] = <<"a", "-", "b">>
  /\ sanitized[2] = <<"a", "-", "b">>

(***************************************************************************)
(* Properties of createDirectoryStructure                                  *)
(***************************************************************************)
\* the string entries of a structure, each with the path its chain of keys
\* gives under base
RECURSIVE TreeFiles(_, _)
TreeFiles(base, t) ==
  IF t = <<>> THEN {}
  ELSE LET e == Head(t)
           here == base \o <<e.key>>
       IN  (CASE e.kind = "string" -> {[path |-> here, content |-> e.content]}
              [] e.kind = "null" -> {}
              [] e.kind = "object" -> TreeFiles(here, e.sub))
           \cup TreeFiles(base, Tail(t))

\* N: the number of string entries; M: the number of null markers and
\* nested structures
RECURSIVE CountFileEntries(_)
CountFileEntries(t) ==
  IF t = <<>> THEN 0
  ELSE (IF Head(t).kind = "string" THEN 1 ELSE 0)
       + CountFileEntries(Head(t).sub) + CountFileEntries(Tail(t))

CountDirEntries(t) == TreeSize(t) - CountFileEntries(t)

FilesOnDisk == { p \in DOMAIN fs : IsFile(fs, p) }
DirsUnderBase == { p \in DOMAIN fs : IsDir(fs, p) /\ p # <<>> }

\* C16: after createDirectoryStructure completes on a base path that did not
\* exist before, for a structure with N string entries and M directory
\* entries exactly N files and at least M directories exist under base,
\* every file is at the path its chain of keys gives and holds exactly the
\* structure's string.
C16_MaterializedTreeMatchesStructure ==
  (pc = "materialized" /\ ~Exists(initialFs, <<>>)) =>
    /\ Cardinality(FilesOnDisk) = CountFileEntries(treeInput)
    /\ Cardinality(DirsUnderBase) >= CountDirEntries(treeInput)
    /\ \A f \in TreeFiles(<<>>, treeInput) :
         IsFile(fs, f.path) /\ fs[f.path] = f.content
    /\ FilesOnDisk = { f.path : f \in TreeFiles(<<>>, treeInput) }

\* a structure with a nested file and a top-level file, materialized
C16_Witness ==
  /\ pc = "materialized"
  /\ ~Exists(initialFs, <<>>)
  /\ CountFileEntries(treeInput) = 2
  /\ IsFile(fs, <<"a", "b">>) /\ fs[<<"a", "b">>] = "y"
  /\ IsFile(fs, <<"b">>) /\ fs[<<"b">>] = "x"
  /\ IsDir(fs, <<"a">>)

\* the filesystem after the given calls, applied in order
RECURSIVE ApplyAll(_, _)
ApplyAll(f, calls) ==
  IF calls = <<>> THEN f ELSE ApplyAll(Apply(f, Head(calls)), Tail(calls))

\* the calls createDirectoryStructure had completed when it stopped
CallsDone ==
  LET all == createDirectoryStructure(<<>>, treeInput)
  IN  SubSeq(all, 1, Len(all) - Len(todo))

\* whatever was written before a failure is on disk, and nothing else: the
\* entries after the failing one were not processed and nothing was undone
StoppedAtFailure ==
  /\ todo # <<>>
  /\ fs = ApplyAll(initialFs, CallsDone)

\* C17: when an underlying I/O operation fails while createDirectoryStructure
\* processes an entry, the caller receives a distinct FileSystemError
\* carrying the failing path, no entry after the failing one is processed
\* and everything written before the failure remains on disk.
C17_FailureIsAFileSystemErrorWithPath ==
  pc = "threw" =>
    /\ thrown.name = "FileSystemError"
    /\ thrown.path = Head(todo).path
    /\ StoppedAtFailure

\* the second file of a structure could not be written: the first one is on
\* disk and the caller holds the error of the filesystem library
C17_Witness ==
  /\ pc = "threw"
  /\ thrown = IoError("ENOSPC", NoPath)
  /\ thrown.name # "FileSystemError"
  /\ IsFile(fs, <<"a">>)
  /\ ~Exists(fs, <<"b">>)
  /\ StoppedAtFailure

\* what does hold of a failure: the error is the one the filesystem call
\* rejected with, and the materializer stopped there without undoing
C17_FailureStopsWithoutRollback ==
  pc = "threw" =>
    /\ thrown.name = "Error"
    /\ thrown.path \in {Head(todo).path, NoPath}
    /\ StoppedAtFailure

(***************************************************************************)
(* Properties of the plugin command                                        *)
(***************************************************************************)
\* the command asks to install or uninstall a plugin of the catalogue
KnownPluginRequested ==
  /\ PluginCommand(pluginOptions).kind \in {"install", "uninstall"}
  /\ PluginCommand(pluginOptions).name \in AvailablePlugins

ManifestMissing == ~Exists(initialFs, PackageJsonPath)
DescriptorMissing == ~Exists(initialFs, PnpmWorkspacePath)

ReadsOrWrites ==
  \E k \in 1..Len(ioLog) : ioLog[k].op \in {"readFile", "writeFile"}

\* position of the first operation op on path in the log, 0 if there is none
FirstIo(op, path) ==
  IF \E k \in 1..Len(ioLog) : ioLog[k] = IoOp(op, path)
    THEN CHOOSE k \in 1..Len(ioLog) :
           /\ ioLog[k] = IoOp(op, path)
           /\ \A j \in 1..(k - 1) : ioLog[j] # IoOp(op, path)
    ELSE 0

\* C18: plugin --install / --uninstall of a known plugin in a directory
\* where package.json or pnpm-workspace.yaml is missing fails with the
\* not-in-a-project error and a non-zero exit status; the plugin's action
\* is never invoked and no file is read or written.
C18_PluginNeedsProjectDirectory ==
  (KnownPluginRequested /\ (ManifestMissing \/ DescriptorMissing)) =>
    /\ invoked = <<>>
    /\ ~ReadsOrWrites
    /\ fs = initialFs
    /\ Exited =>
         /\ ExitedNonZero
         /\ InSeq(ErrNotInProject, stderr)
         /\ ~InSeq(SpinnerSucceed("install"), stderr)
         /\ ~InSeq(SpinnerSucceed("uninstall"), stderr)

\* an uninstall asked for where only the manifest exists has been refused
C18_Witness ==
  /\ Exited
  /\ PluginCommand(pluginOptions) = [kind |-> "uninstall", name |-> "jest"]
  /\ ~ManifestMissing
  /\ DescriptorMissing
  /\ ioLog = << IoOp("access", PackageJsonPath), IoOp("access", PnpmWorkspacePath) >>
  /\ InSeq(ErrNotInProject, stderr)
  /\ exitCode = 1

\* C19: for a known plugin inside a project directory, a run that reports
\* 'installed successfully' / 'uninstalled successfully' has read the root
\* manifest and written the modified manifest back to ./package.json.
C19_SuccessMeansManifestRewritten ==
  (\/ InSeq(SpinnerSucceed("install"), stderr)
   \/ InSeq(SpinnerSucceed("uninstall"), stderr)) =>
    /\ FirstIo("readFile", PackageJsonPath) > 0
    /\ FirstIo("writeFile", PackageJsonPath) > FirstIo("readFile", PackageJsonPath)

\* storybook was reported installed in a project directory although nothing
\* was written
C19_Witness ==
  /\ Exited
  /\ PluginCommand(pluginOptions) = [kind |-> "install", name |-> "storybook"]
  /\ invoked = << [kind |-> "install", name |-> "storybook"] >>
  /\ InSeq(SpinnerSucceed("install"), stderr)
  /\ exitCode = 0
  /\ FirstIo("readFile", PackageJsonPath) > 0
  /\ FirstIo("writeFile", PackageJsonPath) = 0
  /\ fs = initialFs

(***************************************************************************)
(* Properties of the doctor command                                        *)
(***************************************************************************)
OnlyPassAndWarn == \A k \in 1..Len(results) : results[k].status \in {"pass", "warn"}

\* the Node.js version check or the package-manager check has failed
RuntimeComponentMissing ==
  \E k \in 1..Len(results) :
    /\ results[k].name \in {"Node.js Version", "Package Managers"}
    /\ results[k].status = "fail"

\* C20: runDoctor never ends with a non-zero exit status when its results
\* hold only pass and warn, and does end with a non-zero exit status when
\* the Node.js version check or the package-manager check has status fail.
C20_DoctorExitStatusFollowsRuntimeChecks ==
  (Exited /\ Len(results) = 6) =>
    /\ OnlyPassAndWarn => exitCode = 0
    /\ RuntimeComponentMissing => exitCode # 0

\* no package manager on the PATH: the summary names the critical issue and
\* the run ends with status 0
C20_Witness ==
  /\ Exited
  /\ Len(results) = 6
  /\ doctorEnv.managers = {}
  /\ results[2] = DiagnosticResult("Package Managers", "fail", "No package managers found")
  /\ InSeq(MsgCritical, stdout)
  /\ exitCode = 0

\* what does hold: warnings alone never make the exit status non-zero
C20_WarningsNeverFail ==
  (Exited /\ Len(results) = 6 /\ OnlyPassAndWarn) => exitCode = 0

NotAProjectRoot == \E p \in RequiredFiles : ~fileExists(fs, p)

DoctorFinished == Exited /\ InSeq(MsgDiagnostics, stdout)

\* C21: when doctor runs in a directory where package.json,
\* pnpm-workspace.yaml or turbo.json is missing, the not-a-project condition
\* is reported with status warn, never fail, and the run still completes all
\* six checks and prints its summary.
C21_NotAProjectIsAWarning ==
  (DoctorFinished /\ NotAProjectRoot) =>
    /\ Len(results) = 6
    /\ InSeq(MsgResults, stdout)
    /\ results[4].name = "Project Structure"
    /\ results[4].status = "warn"

\* a project without turbo.json: six results, the summary is printed, and
\* the structure check is a critical issue
C21_Witness ==
  /\ DoctorFinished
  /\ ~fileExists(fs, <<"turbo.json">>)
  /\ fileExists(fs, <<"package.json">>)
  /\ Len(results) = 6
  /\ InSeq(MsgResults, stdout)
  /\ results[4] = DiagnosticResult("Project Structure", "fail", "Missing")
  /\ InSeq(MsgCritical, stdout)

\* what does hold: the run completes all six checks and prints its summary
C21_NotAProjectStillCompletes ==
  (DoctorFinished /\ NotAProjectRoot) =>
    /\ Len(results) = 6
    /\ InSeq(MsgResults, stdout)
    /\ results[4].status = "fail"

(***************************************************************************)
(* Properties of the root manifest and of the reverse-proxy configuration  *)
(***************************************************************************)
ManifestGenerated == rootManifest # NoManifest
NginxGenerated == nginxConf # NoNginx

\* C22: the root manifest contains the scripts docker:up and docker:down if
\* and only if docker is true; the base scripts are present for every
\* Configuration.
C22_DockerScriptsIffDocker ==
  ManifestGenerated =>
    /\ \A k \in DOMAIN DockerScripts :
         (k \in DOMAIN rootManifest.scripts) <=> genConfig.docker
    /\ DOMAIN BaseScripts \subseteq DOMAIN rootManifest.scripts

\* a Configuration without docker whose manifest has docker:up and docker:down
C22_Witness ==
  /\ ManifestGenerated
  /\ ~genConfig.docker
  /\ DOMAIN DockerScripts \subseteq DOMAIN rootManifest.scripts
  /\ "docker-compose" \notin DOMAIN rootManifest.devDependencies

\* C23: the root manifest's devDependencies contain the linting-tool
\* dependencies if and only if tools has an entry named eslint whose enabled
\* flag is true; an eslint entry with enabled = false adds none of them.
C23_EslintDependenciesIffEnabled ==
  ManifestGenerated =>
    \A k \in DOMAIN EslintDevDependencies :
      (k \in DOMAIN rootManifest.devDependencies) <=> ToolEnabled(genConfig, "eslint")

\* an eslint entry that is not enabled, and the eslint packages in the
\* manifest
C23_Witness ==
  /\ ManifestGenerated
  /\ HasTool(genConfig, "eslint")
  /\ ~ToolEnabled(genConfig, "eslint")
  /\ DOMAIN EslintDevDependencies \subseteq DOMAIN rootManifest.devDependencies

\* the characters of a package manager's name
PackageManagerChars(pm) ==
  CASE pm = "npm" -> << "n", "p", "m" >>
    [] pm = "yarn" -> << "y", "a", "r", "n" >>
    [] pm = "pnpm" -> << "p", "n", "p", "m" >>

\* String.prototype.includes
Contains(s, sub) ==
  \E i \in 0..(Len(s) - Len(sub)) : SubSeq(s, i + 1, i + Len(sub)) = sub

\* C24: for every package manager in {npm, yarn, pnpm} chosen for a create
\* run, the root manifest's packageManager field contains the chosen
\* manager's name.
C24_PackageManagerFieldNamesChoice ==
  (ManifestGenerated /\ genConfig.packageManager \in PackageManagers) =>
    Contains(rootManifest.packageManager,
             PackageManagerChars(genConfig.packageManager))

\* yarn was chosen and the field is pnpm@8.0.0
C24_Witness ==
  /\ ManifestGenerated
  /\ genConfig.packageManager = "yarn"
  /\ rootManifest.packageManager = PackageManagerField
  /\ ~Contains(rootManifest.packageManager, PackageManagerChars("yarn"))
  /\ Contains(rootManifest.packageManager, PackageManagerChars("npm"))

DeclaredNames(cfg) ==
  { cfg.apps[i].name : i \in 1..Len(cfg.apps) }
  \cup { cfg.services[i].name : i \in 1..Len(cfg.services) }

UpstreamHosts(n) == { n.upstreams[i].host : i \in 1..Len(n.upstreams) }

HealthRoute(n) ==
  \E i \in 1..Len(n.locations) :
    /\ n.locations[i].path = "/health"
    /\ n.locations[i].status = 200
    /\ n.locations[i].proxy_pass = ""

\* C25: for every Configuration with docker = true, the reverse-proxy
\* configuration has exactly one upstream per declared app and per declared
\* service, no upstream for anything not declared, and a /health route that
\* returns a fixed 200 response.
C25_OneUpstreamPerDeclaredAppAndService ==
  (NginxGenerated /\ genConfig.docker) =>
    /\ UpstreamHosts(nginxConf) = DeclaredNames(genConfig)
    /\ Len(nginxConf.upstreams) = Len(genConfig.apps) + Len(genConfig.services)
    /\ HealthRoute(nginxConf)

\* one declared app, web, and five upstreams, none of them for web
C25_Witness ==
  /\ NginxGenerated
  /\ genConfig.docker
  /\ DeclaredNames(genConfig) = {"web"}
  /\ Len(nginxConf.upstreams) = 5
  /\ "web" \notin UpstreamHosts(nginxConf)
  /\ "corporate-website" \in UpstreamHosts(nginxConf)
  /\ HealthRoute(nginxConf)

\* what does hold: the health route is always there
C25_HealthRouteAlways == NginxGenerated => HealthRoute(nginxConf)

(***************************************************************************)
(* The command line without arguments                                      *)
(***************************************************************************)
\* process.argv.length === 2: commander runs the action of the program
\* itself with projectName undefined and every option at its default
NoArguments ==
  /\ projectName = NoName
  /\ options = CreateOption(<<"default", "pnpm">>, FALSE, FALSE, FALSE, FALSE)

\* program.helpInformation(): the usage text with the program name and its
\* description, printed by main after parseAsync has returned
HelpInformation == "Usage: create-monorepo [options] [command] [project-name]"

\* C26: invoked with no arguments at all, the CLI prints the help
\* information to standard output and then terminates with a non-zero exit
\* status, without creating anything on disk.
C26_NoArgumentsPrintsHelpAndFails ==
  (NoArguments /\ Exited) =>
    /\ InSeq(HelpInformation, stdout)
    /\ ExitedNonZero
    /\ fs = initialFs

\* no arguments: createMonorepo rejects the missing name and ends the
\* process before main reaches the help
C26_Witness ==
  /\ NoArguments
  /\ Exited
  /\ exitCode = ExitStatusOnError
  /\ InSeq(ErrNameRequired, stderr)
  /\ stdout = << MsgCreating >>
  /\ fs = initialFs

\* what does hold: the run fails without creating anything
C26_NoArgumentsFailsWithoutIO ==
  (NoArguments /\ Exited) => (ExitedNonZero /\ fs = initialFs)

(***************************************************************************)
(* Repeated names in apps, packages and services                           *)
(***************************************************************************)
\* what one entry alone leaves on an empty disk
AppAlone(app) == ApplyAll(EmptyFs, createAppsStructure(<< app >>))
PackageAlone(pkg) == ApplyAll(EmptyFs, createPackagesStructure(<< pkg >>))
ServiceAlone(service) == ApplyAll(EmptyFs, createServicesStructure(<< service >>))

\* every path of every entry is on disk with the content of the last entry
\* of the list that produces it
LastWriteWins(list, Alone(_)) ==
  \A i \in 1..Len(list) :
    \A p \in DOMAIN Alone(list[i]) :
      (\A j \in (i + 1)..Len(list) : p \notin DOMAIN Alone(list[j]))
        => (p \in DOMAIN fs /\ fs[p] = Alone(list[i])[p])

HasRepeatedName(list) ==
  \E i, j \in 1..Len(list) : i < j /\ list[i].name = list[j].name

\* C27: when apps, packages or services hold two entries with the same name,
\* generation does not fail because of it: no call is refused by what an
\* earlier entry left on disk, both entries are materialized into the same
\* directory in list order, every path produced by both has the content of
\* the later entry, and the paths produced only by the earlier one remain.
C27_DuplicateNamesLastWriteWins ==
  /\ (pc = "materializing" /\ todo # <<>>) => CanApply(fs, Head(todo))
  /\ pc = "materialized" =>
       /\ LastWriteWins(config.apps, AppAlone)
       /\ LastWriteWins(config.packages, PackageAlone)
       /\ LastWriteWins(config.services, ServiceAlone)

\* web as a next app and then as a vue app: the manifest is the vue one and
\* the next-only files are still there
C27_Witness ==
  /\ pc = "materialized"
  /\ config.apps = << AppConfig("web", "next", 3000), AppConfig("web", "vue", 3001) >>
  /\ HasRepeatedName(config.apps)
  /\ fs[<<"apps", "web", "package.json">>] = "getVuePackageJson"
  /\ fs[<<"apps", "web", "next.config.ts">>] = "getNextConfig"
  /\ fs[<<"apps", "web", "src", "app">>] = Dir
  /\ fs[<<"apps", "web", "src", "views">>] = Dir

(***************************************************************************)
(* Dependencies between the blocks of the compose descriptor               *)
(***************************************************************************)
DefinedBlocks(d) == { d.services[i].name : i \in 1..Len(d.services) }

DependsOnPostgres(b) == InSeq("postgres", b.depends_on)

\* C28: in every compose descriptor, every name listed under a depends_on
\* is a block of the same descriptor: redis is always defined, postgres is
\* listed as a dependency of an app or a service only when the postgres
\* block is emitted, and the reverse proxy depends on exactly the declared
\* apps and services.
C28_DependenciesAreDefinedBlocks ==
  pc = "composed" =>
    LET d == composeOutput
        cfg == composeInput
    IN  /\ \A i \in 1..Len(d.services) :
             \A k \in 1..Len(d.services[i].depends_on) :
               d.services[i].depends_on[k] \in DefinedBlocks(d)
        /\ "redis" \in DefinedBlocks(d)
        /\ \A i \in 1..Len(d.services) :
             DependsOnPostgres(d.services[i]) =>
               Len(ImageBlocks(d, "postgres:15")) = 1
        /\ \A i \in 1..Len(d.services) :
             d.services[i].name = "nginx" /\ d.services[i].image = "nginx:alpine" =>
               d.services[i].depends_on
                 = [k \in 1..Len(cfg.apps) |-> cfg.apps[k].name]
                   \o [k \in 1..Len(cfg.services) |-> cfg.services[k].name]

\* an app that depends on redis and postgres, a service without database
\* that depends on redis only, and a proxy that depends on both of them
C28_Witness ==
  /\ pc = "composed"
  /\ Len(composeInput.apps) = 1
  /\ Len(composeInput.services) = 2
  /\ composeInput.services[1].database
  /\ ~composeInput.services[2].database
  /\ \E i \in 1..Len(composeOutput.services) :
       /\ composeOutput.services[i].dockerfile = WebDockerfile
       /\ composeOutput.services[i].depends_on = << "redis", "postgres" >>
  /\ \E i \in 1..Len(composeOutput.services) :
       /\ composeOutput.services[i].dockerfile = ApiDockerfile
       /\ composeOutput.services[i].depends_on = << "redis" >>
  /\ \E i \in 1..Len(composeOutput.services) :
       /\ composeOutput.services[i].name = "nginx"
       /\ Len(composeOutput.services[i].depends_on) = 3

(***************************************************************************)
(* Interactive mode                                                        *)
(***************************************************************************)
\* C29: in interactive mode the Configuration comes entirely from the
\* prompt flow, with only the name replaced by a command-line project name
\* when one is given: skipGit and skipInstall are always false, so
\* version-control init and dependency install are always attempted, and
\* the --skip-git, --skip-install, --docker, --template and
\* --package-manager flags have no effect on the run.
C29_InteractiveIgnoresFlags ==
  (options.interactive /\ config # NoConfig) =>
    /\ config.name = (IF Truthy(projectName) THEN projectName
                                             ELSE answers.projectName)
    /\ config.packageManager = answers.packageManager
    /\ config.template = answers.template
    /\ config.docker = answers.docker
    /\ config.apps = answers.apps
    /\ config.packages = answers.packages
    /\ config.services = answers.services
    /\ Len(config.tools) = Len(answers.tools)
    /\ ~config.skipGit
    /\ ~config.skipInstall
    /\ taskState[4] = "completed" =>
         (Exists(fs, <<"docker-compose.yml">>) <=> answers.docker)
    /\ taskState[5] = "completed" => GitSpawned
    /\ taskState[6] \in {"completed", "failed"} => InstallSpawned
    /\ \A k \in 1..Len(spawned) :
         spawned[k].cmd[2] = "install" => spawned[k].cmd[1] = answers.packageManager

\* --interactive with --docker, --skip-git, --skip-install and
\* --package-manager=npm, answered with pnpm and no docker: git and pnpm
\* install have run and there is no compose file
C29_Witness ==
  /\ options.interactive
  /\ options.skipGit
  /\ options.skipInstall
  /\ options.docker
  /\ options.packageManager = "npm"
  /\ projectName = ValidName
  /\ answers.packageManager = "pnpm"
  /\ ~answers.docker
  /\ Exited
  /\ exitCode = 0
  /\ config.name = ValidName
  /\ GitSpawned
  /\ \E k \in 1..Len(spawned) : spawned[k].cmd = << "pnpm", "install" >>
  /\ ~Exists(fs, <<"docker-compose.yml">>)

(***************************************************************************)
(* Two installers on one manifest                                          *)
(***************************************************************************)
InstallerScripts(i) == IF i = "storybook" THEN StorybookScripts ELSE PlaywrightScripts
InstallerDevDependencies(i) ==
  IF i = "storybook" THEN StorybookDevDependencies ELSE PlaywrightDevDependencies

\* the manifest has every entry of installer i, with the installer's values
HasEntries(m, i) ==
  /\ \A k \in DOMAIN InstallerScripts(i) :
       k \in DOMAIN m.scripts /\ m.scripts[k] = InstallerScripts(i)[k]
  /\ \A k \in DOMAIN InstallerDevDependencies(i) :
       k \in DOMAIN m.devDependencies
       /\ m.devDependencies[k] = InstallerDevDependencies(i)[k]

\* the manifest has no entry of installer i
LacksEntries(m, i) ==
  /\ DOMAIN InstallerScripts(i) \cap DOMAIN m.scripts = {}
  /\ DOMAIN InstallerDevDependencies(i) \cap DOMAIN m.devDependencies = {}

BothInstalled == \A i \in Installers : installers[i].pc \in {"wrote", "done"}

\* C30: the installers' update of the root manifest is a read-modify-write
\* that is not atomic: when both installers read the manifest before either
\* wrote it, the final ./package.json holds the entries of the last writer
\* only and those of the other are lost; when the second reads the manifest
\* the first one wrote, the final manifest holds the entries of both.
C30_LostUpdateWhenInterleaved ==
  (installers # <<>> /\ BothInstalled) =>
    \A first, last \in Installers :
      (installers[first].wrote = 1 /\ installers[last].wrote = 2) =>
        /\ HasEntries(diskManifest, last)
        /\ diskManifest = installers[last].config
        /\ installers[last].readAt = 0 => LacksEntries(diskManifest, first)
        /\ installers[last].readAt = 1 => HasEntries(diskManifest, first)

\* both read the generated manifest, storybook wrote first and playwright
\* last: the storybook entries are gone although storybook has finished
C30_Witness ==
  /\ installers # <<>>
  /\ installers["storybook"].pc = "done"
  /\ installers["playwright"].pc = "done"
  /\ installers["storybook"].readAt = 0
  /\ installers["playwright"].readAt = 0
  /\ installers["storybook"].wrote = 1
  /\ installers["playwright"].wrote = 2
  /\ HasEntries(diskManifest, "playwright")
  /\ LacksEntries(diskManifest, "storybook")
  /\ "dev" \in DOMAIN diskManifest.scripts
  /\ IsFile(fs, <<".storybook", "main.ts">>)
  /\ IsFile(fs, <<"playwright.config.ts">>)

====
